---- MODULE Spec2Model ----
(***************************************************************************)
(* A model of the fe2o3-amqp connection endpoint (connection/mod.rs), of   *)
(* the sender link endpoint (link/sender_link.rs), of delivery resumption  *)
(* (link/resumption.rs), of the link acceptor (acceptor/link.rs) and of    *)
(* the codec: the reader (read.rs), the serializer (ser.rs) and the        *)
(* AmqpSequence deserializer (messaging/format/amqp_sequence.rs).          *)
(*                                                                         *)
(* Spec      : the Connection object; every method of the                  *)
(*             endpoint::Connection impl is an action that may be called   *)
(*             in any order with any input.                                *)
(* SpecAlloc : the Connection object while it is opened and its sessions   *)
(*             are allocated and deallocated.                              *)
(* SpecLink  : the SenderLink object; every method, in any order.          *)
(* SpecResume: resume_delivery (link/resumption.rs) applied to every       *)
(*             local delivery and remote unsettled-map entry.              *)
(* SpecFlow  : SenderLink::send_transfer against the link flow state.      *)
(* SpecHandle: ConnectionHandle (allocate_session, Drop) and the control   *)
(*             channel it shares with the connection engine.               *)
(* SpecReader: IoReader (peek, next, read_exact) over every short stream.  *)
(* SpecSeq   : AmqpSequence's visit_seq applied to every descriptor/body.  *)
(* SpecAccept: LinkAcceptor::handle_attach_error for every attach error.   *)
(* SpecSer   : to_vec applied to scalars, sequences, maps, variants and    *)
(*             described values.                                           *)
(* SpecSerializer: one Serializer given strings, symbols and integers     *)
(*             one after the other.                                        *)
(***************************************************************************)
EXTENDS Integers, Sequences, FiniteSets, TLC

(* ------------------------------ bounds -------------------------------- *)

\* largest channel-max either peer announces in its Open
MaxChannelMax == 1
\* largest incoming (remote) channel number a frame arrives on
MaxIncomingChannel == 0
\* number of session endpoints (tx halves) ever created
MaxTx == 3
\* capacity of the bounded control channel
ControlCap == 1
\* frames the transport accepts before the model stops writing
MaxWritten == 2

\* largest link handle
MaxHandle == 1
\* largest max-message-size either end of a link announces
MaxMessageSize == 2
\* frames the session accepts from the link before the model stops writing
MaxLinkWritten == 3

(* ------------------------------ values -------------------------------- *)

\* Option<Open>: None, or Some(open) with the fields of Open the connection reads
NoOpen == [present |-> FALSE, channel_max |-> 0]
SomeOpen(channel_max) == [present |-> TRUE, channel_max |-> channel_max]
RemoteOpens == { SomeOpen(m) : m \in 0 .. MaxChannelMax }

ConnectionStates ==
    { "Start", "HeaderSent", "HeaderReceived", "HeaderExchange", "OpenPipe",
      "OpenClosePipe", "OpenSent", "OpenReceived", "Opened", "CloseSent",
      "CloseReceived", "ClosePipe", "Discarding", "End" }

ChannelMaxValues == 0 .. MaxChannelMax
\* begin.remote_channel: None, or Some(outgoing channel)
NoChannel == -1
IncomingChannels == 0 .. MaxIncomingChannel
OutgoingChannels == 0 .. (MaxChannelMax + 1)
Txs == 1 .. MaxTx
\* the states of the header exchange, one of which Connection::new is given
HeaderStates == { "Start", "HeaderSent", "HeaderReceived", "HeaderExchange" }
\* what Sink::send / Sender::send may answer
SendResults == { "ok", "err" }

\* the first poll of a send: it completes, or it is Pending
PollResults == SendResults \cup { "pending" }

Min(a, b) == IF a <= b THEN a ELSE b

\* the last change of local_state recorded in h, followed by e: the history
\* remembers two changes
Push(h, e) == IF h = << >> THEN << e >> ELSE << h[Len(h)], e >>

VARIABLES
    \* struct Connection
    local_state, local_open, local_sessions, session_by_incoming_channel,
    session_by_outgoing_channel, remote_open, agreed_channel_max,
    \* the bounded control channel (Sender<ConnectionControl>) and the transport sink
    control, written,
    \* the senders that wait for a slot of the control channel, in the order they
    \* began to wait, and the senders a freed slot was handed to
    control_waiters, control_permits,
    \* position of the task driving the connection: running, blocked (Pending at the
    \* send of on_incoming_close), send_begin and send_end (Pending at the send of
    \* on_incoming_begin and on_incoming_end), panicked
    engine_pc,
    \* the outgoing channel each live session endpoint was handed by allocate_session
    outgoing_channel,
    \* the next session endpoint to be created
    next_tx,
    \* outcome of the most recent call and the last changes of local_state
    last_call, conn_hist

conn_vars ==
    << local_state, local_open, local_sessions, session_by_incoming_channel,
       session_by_outgoing_channel, remote_open, agreed_channel_max,
       control, control_waiters, control_permits,
       written, engine_pc, outgoing_channel, next_tx, last_call, conn_hist >>

VARIABLES
    \* struct SenderLink
    link_local_state, output_handle, input_handle, target, max_message_size,
    \* Attach and Detach frames the link has handed to the session
    link_written,
    \* outcome of the most recent call and the last changes of the link's local_state
    link_last_call, link_hist,
    \* position of the caller of the link's methods: idle, or send_detach (Pending
    \* at the send of the Detach)
    link_pc

link_vars ==
    << link_local_state, output_handle, input_handle, target, max_message_size,
       link_written, link_last_call, link_hist, link_pc >>

VARIABLES
    \* build feature "transaction", and the arguments and the result of resume_delivery
    transaction, resume_local, resume_remote, resuming

resume_vars == << transaction, resume_local, resume_remote, resuming >>

VARIABLES
    \* LinkFlowState as far as send_transfer reads and consumes it
    link_credit, drain,
    \* position of a call of send_transfer: idle, consume, panicked
    transfer_pc,
    \* units of credit consumed, and Transfer frames handed to the session
    credit_consumed, transfers_written

flow_vars == << link_credit, drain, transfer_pc, credit_consumed, transfers_written >>

VARIABLES
    \* the receiving half of the control channel exists
    rx_alive,
    \* the oneshot responder of a call of ConnectionHandle::allocate_session:
    \* none, created, queued, held, answered, dropped; and the answer it carries
    responder, answer,
    \* position and result of the call: idle, sending, awaiting, returned
    alloc_pc, alloc_result,
    \* the ConnectionHandle was dropped
    handle_dropped

handle_vars == << rx_alive, responder, answer, alloc_pc, alloc_result, handle_dropped >>

VARIABLES
    \* IoReader::reader, an io::Read: the bytes of the input and how many were read
    reader_bytes, reader_pos,
    \* IoReader::next_byte: Option<u8>
    next_byte,
    \* the bytes that next and read_exact returned, in the order of the calls
    taken,
    \* the last call of a method of IoReader and what it returned
    reader_last

reader_vars == << reader_bytes, reader_pos, next_byte, taken, reader_last >>

VARIABLES
    \* the elements a SeqAccess yields to the Visitor of AmqpSequence, and what
    \* visit_seq returned
    seq_elements, seq_result

de_vars == << seq_elements, seq_result >>

VARIABLES
    \* the arguments of handle_attach_error: the AttachError and Option<Attach>
    attach_error, rejected_attach,
    \* what is queued in the bounded channels outgoing and session_control
    acceptor_outgoing, acceptor_control,
    \* what the session took from the two channels, and whether it still holds
    \* their receivers
    outgoing_taken, control_taken, session_rx,
    \* position of the call: idle, send_attach and send_end (waiting for room in
    \* outgoing and in session_control), panicked
    accept_pc

accept_vars ==
    << attach_error, rejected_attach, acceptor_outgoing, acceptor_control, outgoing_taken,
       control_taken, session_rx, accept_pc >>

VARIABLES
    \* the value given to to_vec, and what the Serializer wrote and returned
    ser_value, ser_result,
    \* a Serializer that is given one value after the other: Serializer::state,
    \* Serializer::writer, and the calls made with what each wrote and returned
    serializer_state, writer, serializer_calls

ser_vars == << ser_value, ser_result, serializer_state, writer, serializer_calls >>

\* the encoding and decoding of values, and the acceptor of links
codec_vars == << reader_vars, de_vars, accept_vars, ser_vars >>

\* what a method of the connection, of the link, ... leaves alone
non_conn_vars == << link_vars, resume_vars, flow_vars, handle_vars, codec_vars >>
non_link_vars == << conn_vars, resume_vars, flow_vars, handle_vars, codec_vars >>
non_resume_vars == << conn_vars, link_vars, flow_vars, handle_vars, codec_vars >>
non_flow_vars == << conn_vars, resume_vars, handle_vars, codec_vars >>
non_handle_vars == << link_vars, resume_vars, flow_vars, codec_vars >>
endpoint_vars == << conn_vars, link_vars, resume_vars, flow_vars, handle_vars >>
non_reader_vars == << endpoint_vars, de_vars, accept_vars, ser_vars >>
non_de_vars == << endpoint_vars, reader_vars, accept_vars, ser_vars >>
non_accept_vars == << endpoint_vars, reader_vars, de_vars, ser_vars >>
non_ser_vars == << endpoint_vars, reader_vars, de_vars, accept_vars >>

vars == << endpoint_vars, codec_vars >>

(* --------------------- slab::Slab as used by Connection ---------------- *)
\* local_sessions is [entries, next]: entries[k + 1] is slot k, either
\* occupied by a session's tx or vacant and pointing at the next vacant slot;
\* next is the key the next insertion uses.

Occupied(val) == [occ |-> TRUE, val |-> val, nxt |-> 0]
Vacant(nxt) == [occ |-> FALSE, val |-> 0, nxt |-> nxt]

SlabNew == [entries |-> << >>, next |-> 0]

\* a slab that never reuses a vacated slot
slab_vacant_key_len(s) == Len(s.entries)

\* Slab::vacant_entry().key()
slab_vacant_key(s) == s.next

\* Slab::contains / get_mut(key).is_some()
slab_contains(s, key) == key < Len(s.entries) /\ s.entries[key + 1].occ

\* Slab::get_mut(key), for a key that is contained
slab_get(s, key) == s.entries[key + 1].val

\* VacantEntry::insert
slab_insert(s, key, val) ==
    IF key = Len(s.entries)
    THEN [entries |-> Append(s.entries, Occupied(val)), next |-> key + 1]
    ELSE [entries |-> [s.entries EXCEPT ![key + 1] = Occupied(val)],
          next |-> s.entries[key + 1].nxt]

\* Slab::remove, for a key that is contained
slab_remove(s, key) ==
    [entries |-> [s.entries EXCEPT ![key + 1] = Vacant(s.next)], next |-> key]

\* keys of the occupied slots: the live sessions
LiveSessions(s) == { k \in 0 .. (Len(s.entries) - 1) : s.entries[k + 1].occ }
LiveTxs(s) == { s.entries[k + 1].val : k \in LiveSessions(s) }

(* ------------------------- BTreeMap<u16, usize> ------------------------ *)

MapInsert(m, k, v) == [x \in DOMAIN m \cup {k} |-> IF x = k THEN v ELSE m[x]]
MapRemove(m, k) == [x \in DOMAIN m \ {k} |-> m[x]]
EmptyMap == [x \in {} |-> 0]

(* ------------------------- outcome of a call --------------------------- *)

NoValue == -1

\* op returned res; ret is the channel allocate_session returned, or the session
\* endpoint a frame was forwarded to
Call(op, res, ret) == [op |-> op, res |-> res, ret |-> ret]

NoCall == Call("none", "none", NoValue)

\* what a call reports of the send of a frame to a session: delivered, the
\* receiver gone, or not yet taken
send_result(sent) ==
    CASE sent = "ok" -> "Ok"
      [] sent = "err" -> "SendError"
      [] sent = "pending" -> "Pending"

\* on_incoming_close waits at the send of its Close command, and holds close.error
PendingClose(close_error) ==
    Call("on_incoming_close", "Pending", IF close_error THEN 1 ELSE 0)

\* conn_hist after a call of op that found the state from and left it to
Record(op, from, to) ==
    IF from = to THEN conn_hist ELSE Push(conn_hist, [op |-> op, from |-> from, to |-> to])

(* --------------------------- the state matrix -------------------------- *)

IllegalState == "IllegalState"

\* the match of allocate_session: may a session be allocated in state s
allocate_session_allowed(s) ==
    s \notin { "Start", "HeaderSent", "HeaderReceived", "HeaderExchange",
               "CloseSent", "Discarding", "End" }

\* every session is handed channel 0
channel_of_session_id_zero(session_id) == 0

\* the channel handed out for a slab key
channel_of_session_id(session_id) == session_id

\* the remote Open that answers the local one leaves the state for a first Open
on_incoming_open_match_first(s) ==
    CASE s = "HeaderExchange" -> "OpenReceived"
      [] s = "OpenSent" -> "OpenReceived"
      [] s = "ClosePipe" -> "CloseSent"
      [] OTHER -> "IllegalState"

\* the match of on_incoming_open
on_incoming_open_match(s) ==
    CASE s = "HeaderExchange" -> "OpenReceived"
      [] s = "OpenSent" -> "Opened"
      [] s = "ClosePipe" -> "CloseSent"
      [] OTHER -> IllegalState

\* the remote channel-max is taken as it is
mutual_channel_max_remote(local, remote) == remote

\* set channel_max to mutually acceptable
mutual_channel_max(local, remote) == Min(local, remote)

\* the match of on_incoming_close
on_incoming_close_match(s) ==
    CASE s = "Opened" -> "CloseReceived"
      [] s = "CloseSent" -> "End"
      [] OTHER -> IllegalState

\* the match of send_open
send_open_match(s) ==
    CASE s = "HeaderExchange" -> "OpenSent"
      [] s = "OpenReceived" -> "Opened"
      [] s = "HeaderSent" -> "OpenPipe"
      [] OTHER -> IllegalState

\* the Close that answers the remote one leaves the state for a first Close
send_close_match_first(s) ==
    CASE s = "Opened" -> "CloseSent"
      [] s = "CloseReceived" -> "CloseSent"
      [] s = "OpenSent" -> "ClosePipe"
      [] s = "OpenPipe" -> "OpenClosePipe"
      [] OTHER -> "IllegalState"

\* the match of send_close
send_close_match(s) ==
    CASE s = "Opened" -> "CloseSent"
      [] s = "CloseReceived" -> "End"
      [] s = "OpenSent" -> "ClosePipe"
      [] s = "OpenPipe" -> "OpenClosePipe"
      [] OTHER -> IllegalState

(* ------------------------------- Init ---------------------------------- *)

\* Connection::new(control, local_state, local_open)
ConnInit ==
    /\ local_state \in HeaderStates
    /\ local_open \in [channel_max : ChannelMaxValues]
    /\ local_sessions = SlabNew
    /\ session_by_incoming_channel = EmptyMap
    /\ session_by_outgoing_channel = EmptyMap
    /\ remote_open = NoOpen
    /\ agreed_channel_max = local_open.channel_max
    /\ control = << >>
    /\ control_waiters = << >>
    /\ control_permits = {}
    /\ written = [open |-> 0, close |-> 0]
    /\ engine_pc = "running"
    /\ outgoing_channel = EmptyMap
    /\ next_tx = 1
    /\ last_call = NoCall
    /\ conn_hist = << >>

(* ------------------------- the control channel ------------------------ *)

\* the slots of the control channel that no message and no sender holds
ControlFree == ControlCap - Len(control) - Cardinality(control_permits)

\* the sender waits in line for a slot
Waiting(sender) == \E i \in DOMAIN control_waiters : control_waiters[i] = sender

\* a poll of Sender::send finds a slot: one that was handed to the sender, or a
\* free one (a slot is free only when no sender waits)
send_has_slot(sender) == sender \in control_permits \/ ControlFree > 0

\* a poll of Sender::send that finds a slot puts the message into the channel
Sender_send(sender, message) ==
    /\ send_has_slot(sender)
    /\ control' = Append(control, message)
    /\ control_permits' = control_permits \ { sender }
    /\ UNCHANGED control_waiters

\* a poll of Sender::send that finds no slot leaves the sender waiting in line
Sender_wait(sender) ==
    /\ ~send_has_slot(sender)
    /\ control_waiters' =
           IF Waiting(sender) THEN control_waiters ELSE Append(control_waiters, sender)
    /\ UNCHANGED << control, control_permits >>

\* a poll of Sender::send in a task whose cooperative budget is used up: Pending,
\* and the sender is not in line
Sender_yield == UNCHANGED << control, control_waiters, control_permits >>

(* ------------------------------ actions -------------------------------- *)

allocate_session(tx) ==
    /\ engine_pc = "running"
    /\ tx = next_tx
    /\ LET session_id == slab_vacant_key(local_sessions)
           channel == channel_of_session_id(session_id)
       IN IF ~allocate_session_allowed(local_state)
          THEN /\ last_call' = Call("allocate_session", IllegalState, NoValue)
               /\ UNCHANGED << local_sessions, session_by_outgoing_channel, outgoing_channel,
                               next_tx >>
          ELSE IF session_id > agreed_channel_max
          THEN /\ last_call' = Call("allocate_session", "ChannelMaxReached", NoValue)
               /\ UNCHANGED << local_sessions, session_by_outgoing_channel, outgoing_channel,
                               next_tx >>
          ELSE /\ local_sessions' = slab_insert(local_sessions, session_id, tx)
               /\ session_by_outgoing_channel' =
                      MapInsert(session_by_outgoing_channel, channel, session_id)
               /\ outgoing_channel' = MapInsert(outgoing_channel, tx, channel)
               /\ next_tx' = next_tx + 1
               /\ last_call' = Call("allocate_session", "Ok", channel)
    /\ UNCHANGED << local_state, local_open, session_by_incoming_channel, remote_open,
                    agreed_channel_max,
                    control, control_waiters, control_permits, written, engine_pc, conn_hist >>
    /\ UNCHANGED non_conn_vars

deallocate_session(session_id) ==
    /\ engine_pc = "running"
    /\ IF slab_contains(local_sessions, session_id)
       THEN /\ local_sessions' = slab_remove(local_sessions, session_id)
            /\ outgoing_channel' =
                   MapRemove(outgoing_channel, slab_get(local_sessions, session_id))
            /\ last_call' = Call("deallocate_session", "Ok", NoValue)
            /\ UNCHANGED engine_pc
       ELSE \* Slab::remove panics on a key that is not occupied
            /\ engine_pc' = "panicked"
            /\ last_call' = Call("deallocate_session", "panic", NoValue)
            /\ UNCHANGED << local_sessions, outgoing_channel >>
    /\ UNCHANGED << local_state, local_open, session_by_incoming_channel,
                    session_by_outgoing_channel, remote_open, agreed_channel_max,
                    control, control_waiters, control_permits, written, next_tx, conn_hist >>
    /\ UNCHANGED non_conn_vars

on_incoming_open(channel, open) ==
    /\ engine_pc = "running"
    /\ LET to == on_incoming_open_match(local_state)
       IN IF to = IllegalState
          THEN /\ last_call' = Call("on_incoming_open", IllegalState, NoValue)
               /\ UNCHANGED << local_state, agreed_channel_max, remote_open, conn_hist >>
          ELSE /\ local_state' = to
               /\ agreed_channel_max' =
                      mutual_channel_max(local_open.channel_max, open.channel_max)
               /\ remote_open' = open
               /\ conn_hist' = Record("on_incoming_open", local_state, to)
               /\ last_call' = Call("on_incoming_open", "Ok", NoValue)
    /\ UNCHANGED << local_open, local_sessions, session_by_incoming_channel,
                    session_by_outgoing_channel,
                    control, control_waiters, control_permits, written, engine_pc,
                    outgoing_channel, next_tx >>
    /\ UNCHANGED non_conn_vars

\* a Begin is taken for the start of a session whatever its remote_channel is
on_incoming_begin_any(channel, remote_channel, sent) ==
    /\ engine_pc = "running"
    /\ IF local_state # "Opened"
       THEN /\ last_call' = Call("on_incoming_begin", "IllegalState", NoValue)
            /\ UNCHANGED session_by_incoming_channel
       ELSE /\ session_by_incoming_channel' = MapInsert(session_by_incoming_channel, channel, 0)
            /\ last_call' = Call("on_incoming_begin", "Ok", NoValue)
    /\ UNCHANGED << local_state, local_open, local_sessions, session_by_outgoing_channel,
                    remote_open, agreed_channel_max,
                    control, control_waiters, control_permits, written, engine_pc,
                    outgoing_channel, next_tx, conn_hist >>
    /\ UNCHANGED non_conn_vars

on_incoming_begin(channel, remote_channel, sent) ==
    /\ engine_pc = "running"
    /\ IF local_state # "Opened"
       THEN /\ last_call' = Call("on_incoming_begin", IllegalState, NoValue)
            /\ UNCHANGED << session_by_incoming_channel, engine_pc >>
       ELSE IF remote_channel = NoChannel
       THEN /\ last_call' = Call("on_incoming_begin", "NotImplemented", NoValue)
            /\ UNCHANGED << session_by_incoming_channel, engine_pc >>
       ELSE IF remote_channel \notin DOMAIN session_by_outgoing_channel
       THEN /\ last_call' = Call("on_incoming_begin", "NotFound", NoValue)
            /\ UNCHANGED << session_by_incoming_channel, engine_pc >>
       ELSE IF channel \in DOMAIN session_by_incoming_channel
       THEN /\ last_call' = Call("on_incoming_begin", "NotAllowed", NoValue)
            /\ UNCHANGED << session_by_incoming_channel, engine_pc >>
       ELSE LET session_id == session_by_outgoing_channel[remote_channel]
            IN /\ session_by_incoming_channel' =
                      MapInsert(session_by_incoming_channel, channel, session_id)
               /\ IF ~slab_contains(local_sessions, session_id)
                  THEN /\ last_call' = Call("on_incoming_begin", "NotFound", NoValue)
                       /\ UNCHANGED engine_pc
                  \* tx.send(sframe).await?, first poll
                  ELSE /\ last_call' = Call("on_incoming_begin", send_result(sent),
                                           slab_get(local_sessions, session_id))
                       /\ engine_pc' = IF sent = "pending" THEN "send_begin" ELSE engine_pc
    /\ UNCHANGED << local_state, local_open, local_sessions, session_by_outgoing_channel,
                    remote_open, agreed_channel_max,
                    control, control_waiters, control_permits, written,
                    outgoing_channel, next_tx, conn_hist >>
    /\ UNCHANGED non_conn_vars

\* the event loop polls on_incoming_begin again, at the send of the Begin to the
\* session: the binding was inserted by the first poll
on_incoming_begin_woken(sent) ==
    /\ engine_pc = "send_begin"
    /\ engine_pc' = "running"
    /\ last_call' = Call("on_incoming_begin", send_result(sent), last_call.ret)
    /\ UNCHANGED << local_state, local_open, local_sessions, session_by_incoming_channel,
                    session_by_outgoing_channel, remote_open, agreed_channel_max,
                    control, control_waiters, control_permits, written,
                    outgoing_channel, next_tx, conn_hist >>
    /\ UNCHANGED non_conn_vars

on_incoming_end(channel, sent) ==
    /\ engine_pc = "running"
    /\ IF local_state # "Opened"
       THEN /\ last_call' = Call("on_incoming_end", IllegalState, NoValue)
            /\ UNCHANGED << session_by_incoming_channel, engine_pc >>
       ELSE IF channel \notin DOMAIN session_by_incoming_channel
       THEN /\ last_call' = Call("on_incoming_end", "NotFound", NoValue)
            /\ UNCHANGED << session_by_incoming_channel, engine_pc >>
       ELSE LET session_id == session_by_incoming_channel[channel]
            IN /\ session_by_incoming_channel' = MapRemove(session_by_incoming_channel, channel)
               /\ IF ~slab_contains(local_sessions, session_id)
                  THEN /\ last_call' = Call("on_incoming_end", "NotFound", NoValue)
                       /\ UNCHANGED engine_pc
                  \* .send(sframe).await?, first poll
                  ELSE /\ last_call' = Call("on_incoming_end", send_result(sent),
                                           slab_get(local_sessions, session_id))
                       /\ engine_pc' = IF sent = "pending" THEN "send_end" ELSE engine_pc
    /\ UNCHANGED << local_state, local_open, local_sessions, session_by_outgoing_channel,
                    remote_open, agreed_channel_max,
                    control, control_waiters, control_permits, written,
                    outgoing_channel, next_tx, conn_hist >>
    /\ UNCHANGED non_conn_vars

\* the event loop polls on_incoming_end again, at the send of the End to the
\* session: the binding was removed by the first poll
on_incoming_end_woken(sent) ==
    /\ engine_pc = "send_end"
    /\ engine_pc' = "running"
    /\ last_call' = Call("on_incoming_end", send_result(sent), last_call.ret)
    /\ UNCHANGED << local_state, local_open, local_sessions, session_by_incoming_channel,
                    session_by_outgoing_channel, remote_open, agreed_channel_max,
                    control, control_waiters, control_permits, written,
                    outgoing_channel, next_tx, conn_hist >>
    /\ UNCHANGED non_conn_vars

\* close_error: whether close.error is Some
on_incoming_close(channel, close_error) ==
    /\ engine_pc = "running"
    /\ LET to == on_incoming_close_match(local_state)
           res == IF close_error THEN "Remote" ELSE "Ok"
       IN IF to = IllegalState
          THEN /\ last_call' = Call("on_incoming_close", IllegalState, NoValue)
               /\ UNCHANGED << local_state, control, control_waiters, control_permits,
                               engine_pc, conn_hist >>
          ELSE /\ local_state' = to
               /\ conn_hist' = Record("on_incoming_close", local_state, to)
               /\ IF local_state # "Opened"
                  THEN /\ last_call' = Call("on_incoming_close", res, NoValue)
                       /\ UNCHANGED << control, control_waiters, control_permits, engine_pc >>
                  \* self.control.send(ConnectionControl::Close(None)).await?, first poll
                  ELSE \/ /\ Sender_send("engine", "Close")
                          /\ last_call' = Call("on_incoming_close", res, NoValue)
                          /\ UNCHANGED engine_pc
                       \/ /\ Sender_wait("engine") \/ Sender_yield
                          /\ engine_pc' = "blocked"
                          /\ last_call' = PendingClose(close_error)
    /\ UNCHANGED << local_open, local_sessions, session_by_incoming_channel,
                    session_by_outgoing_channel, remote_open, agreed_channel_max, written,
                    outgoing_channel, next_tx >>
    /\ UNCHANGED non_conn_vars

\* the event loop polls on_incoming_close again, at the send of the Close command
on_incoming_close_woken ==
    /\ engine_pc = "blocked"
    /\ \/ /\ Sender_send("engine", "Close")
          /\ engine_pc' = "running"
          /\ last_call' = Call("on_incoming_close",
                               IF last_call.ret = 1 THEN "Remote" ELSE "Ok", NoValue)
       \/ /\ Sender_wait("engine")
          /\ UNCHANGED << engine_pc, last_call >>
    /\ UNCHANGED << local_state, local_open, local_sessions, session_by_incoming_channel,
                    session_by_outgoing_channel, remote_open, agreed_channel_max, written,
                    outgoing_channel, next_tx, conn_hist >>
    /\ UNCHANGED non_conn_vars

\* sent: what writer.send(frame) answers
send_open(sent) ==
    /\ engine_pc = "running"
    /\ sent = "ok" => written.open + written.close < MaxWritten
    /\ LET to == send_open_match(local_state)
       IN IF sent # "ok"
          THEN /\ last_call' = Call("send_open", "TransportError", NoValue)
               /\ UNCHANGED << local_state, written, conn_hist >>
          ELSE /\ written' = [written EXCEPT !.open = @ + 1]
               /\ IF to = IllegalState
                  THEN /\ last_call' = Call("send_open", IllegalState, NoValue)
                       /\ UNCHANGED << local_state, conn_hist >>
                  ELSE /\ local_state' = to
                       /\ conn_hist' = Record("send_open", local_state, to)
                       /\ last_call' = Call("send_open", "Ok", NoValue)
    /\ UNCHANGED << local_open, local_sessions, session_by_incoming_channel,
                    session_by_outgoing_channel, remote_open, agreed_channel_max,
                    control, control_waiters, control_permits,
                    engine_pc, outgoing_channel, next_tx >>
    /\ UNCHANGED non_conn_vars

on_outgoing_end(channel) ==
    /\ engine_pc = "running"
    /\ IF channel \in DOMAIN session_by_outgoing_channel
       THEN /\ session_by_outgoing_channel' = MapRemove(session_by_outgoing_channel, channel)
            /\ last_call' = Call("on_outgoing_end", "Ok", NoValue)
       ELSE /\ last_call' = Call("on_outgoing_end", "NotFound", NoValue)
            /\ UNCHANGED session_by_outgoing_channel
    /\ UNCHANGED << local_state, local_open, local_sessions, session_by_incoming_channel,
                    remote_open, agreed_channel_max,
                    control, control_waiters, control_permits, written, engine_pc,
                    outgoing_channel, next_tx, conn_hist >>
    /\ UNCHANGED non_conn_vars

send_close(sent) ==
    /\ engine_pc = "running"
    /\ sent = "ok" => written.open + written.close < MaxWritten
    /\ LET to == send_close_match(local_state)
       IN IF sent # "ok"
          THEN /\ last_call' = Call("send_close", "TransportError", NoValue)
               /\ UNCHANGED << local_state, written, conn_hist >>
          ELSE /\ written' = [written EXCEPT !.close = @ + 1]
               /\ IF to = IllegalState
                  THEN /\ last_call' = Call("send_close", IllegalState, NoValue)
                       /\ UNCHANGED << local_state, conn_hist >>
                  ELSE /\ local_state' = to
                       /\ conn_hist' = Record("send_close", local_state, to)
                       /\ last_call' = Call("send_close", "Ok", NoValue)
    /\ UNCHANGED << local_open, local_sessions, session_by_incoming_channel,
                    session_by_outgoing_channel, remote_open, agreed_channel_max,
                    control, control_waiters, control_permits,
                    engine_pc, outgoing_channel, next_tx >>
    /\ UNCHANGED non_conn_vars

\* ConnectionHandle::close: control.send(ConnectionControl::Close(None)); the
\* sender waits while the channel is full
ConnectionHandle_close ==
    /\ engine_pc # "panicked"
    /\ Sender_send("closing handle", "Close") \/ Sender_wait("closing handle")
    /\ UNCHANGED << local_state, local_open, local_sessions, session_by_incoming_channel,
                    session_by_outgoing_channel, remote_open, agreed_channel_max, written,
                    engine_pc, outgoing_channel, next_tx, last_call, conn_hist >>
    /\ UNCHANGED non_conn_vars

(* ------------------------------ SenderLink ----------------------------- *)

LinkStates ==
    { "Unattached", "AttachSent", "AttachReceived", "Attached", "DetachSent",
      "DetachReceived", "Detached" }

\* Option<Handle>
NoHandle == -1
Handles == 0 .. MaxHandle
\* Option<Target>, as far as the link tells targets apart
Targets == { "none", "q1" }
\* attach.max_message_size: None, or Some(size)
NoSize == -1
MessageSizes == 0 .. MaxMessageSize
Attaches == [handle : Handles, target : Targets, max_message_size : MessageSizes \cup {NoSize}]

\* link_hist after a call of op that found the state from and left it to
LinkRecord(op, from, to) ==
    IF from = to THEN link_hist ELSE Push(link_hist, [op |-> op, from |-> from, to |-> to])

\* the match of on_incoming_attach
on_incoming_attach_match(s) ==
    CASE s = "AttachSent" -> "Attached"
      [] s = "Unattached" -> "AttachReceived"
      [] s = "Detached" -> "AttachReceived"
      [] OTHER -> IllegalState

\* the match of on_incoming_detach
on_incoming_detach_match(s) ==
    CASE s = "Attached" -> "DetachReceived"
      [] s = "DetachSent" -> "Detached"
      [] OTHER -> IllegalState

\* the Attach that answers the remote one leaves the state for a first Attach
send_attach_match_first(s) ==
    CASE s \in { "Unattached", "Detached", "DetachSent", "AttachReceived" } -> "AttachSent"
      [] OTHER -> "IllegalState"

\* the match of send_attach
send_attach_match(s) ==
    CASE s \in { "Unattached", "Detached", "DetachSent" } -> "AttachSent"
      [] s = "AttachReceived" -> "Attached"
      [] OTHER -> IllegalState

\* a Detach sent first already leaves the link Detached
send_detach_match_done(s) ==
    CASE s = "Attached" -> "Detached"
      [] s = "DetachReceived" -> "Detached"
      [] OTHER -> "IllegalState"

\* the match of send_detach
send_detach_match(s) ==
    CASE s = "Attached" -> "DetachSent"
      [] s = "DetachReceived" -> "Detached"
      [] OTHER -> IllegalState

\* set max message size
negotiated_max_message_size(local, attach_size) ==
    LET remote_max_msg_size == IF attach_size = NoSize THEN 0 ELSE attach_size
    IN IF remote_max_msg_size < local THEN remote_max_msg_size ELSE local

\* a SenderLink as the link builder leaves it: not attached, with or without the
\* output handle the session allocates for it
LinkInit ==
    /\ link_local_state = "Unattached"
    /\ output_handle \in { NoHandle, 0 }
    /\ input_handle = NoHandle
    /\ target \in Targets
    /\ max_message_size \in MessageSizes
    /\ link_written = [attach |-> 0, detach |-> 0]
    /\ link_last_call = NoCall
    /\ link_hist = << >>
    /\ link_pc = "idle"

on_incoming_attach(attach) ==
    /\ link_pc = "idle"
    /\ LET to == on_incoming_attach_match(link_local_state)
       IN IF to = IllegalState
          THEN /\ link_last_call' = Call("on_incoming_attach", IllegalState, NoValue)
               /\ UNCHANGED << link_local_state, input_handle, target, max_message_size,
                               link_hist >>
          ELSE /\ link_local_state' = to
               /\ input_handle' = attach.handle
               /\ target' = attach.target
               /\ max_message_size' =
                      negotiated_max_message_size(max_message_size, attach.max_message_size)
               /\ link_hist' = LinkRecord("on_incoming_attach", link_local_state, to)
               /\ link_last_call' = Call("on_incoming_attach", "Ok", NoValue)
    /\ UNCHANGED << output_handle, link_written, link_pc >>
    /\ UNCHANGED non_link_vars

\* detach_error: whether detach.error is Some
on_incoming_detach(detach_error) ==
    /\ link_pc = "idle"
    /\ LET to == on_incoming_detach_match(link_local_state)
       IN IF to = IllegalState
          THEN /\ link_last_call' = Call("on_incoming_detach", IllegalState, NoValue)
               /\ UNCHANGED << link_local_state, output_handle, link_hist >>
          ELSE /\ link_local_state' = to
               /\ output_handle' = NoHandle
               /\ link_hist' = LinkRecord("on_incoming_detach", link_local_state, to)
               /\ link_last_call' =
                      Call("on_incoming_detach", IF detach_error THEN "Remote" ELSE "Ok", NoValue)
    /\ UNCHANGED << input_handle, target, max_message_size, link_written, link_pc >>
    /\ UNCHANGED non_link_vars

\* sent: what writer.send(frame) answers
send_attach(sent) ==
    /\ link_pc = "idle"
    /\ sent = "ok" => link_written.attach + link_written.detach < MaxLinkWritten
    /\ LET to == send_attach_match(link_local_state)
       IN IF output_handle = NoHandle
          THEN /\ link_last_call' = Call("send_attach", "InvalidField", NoValue)
               /\ UNCHANGED << link_local_state, link_written, link_hist >>
          ELSE IF to = IllegalState
          THEN /\ link_last_call' = Call("send_attach", IllegalState, NoValue)
               /\ UNCHANGED << link_local_state, link_written, link_hist >>
          ELSE IF sent # "ok"
          THEN /\ link_last_call' = Call("send_attach", "SendError", NoValue)
               /\ UNCHANGED << link_local_state, link_written, link_hist >>
          ELSE /\ link_written' = [link_written EXCEPT !.attach = @ + 1]
               /\ link_local_state' = to
               /\ link_hist' = LinkRecord("send_attach", link_local_state, to)
               /\ link_last_call' = Call("send_attach", "Ok", NoValue)
    /\ UNCHANGED << output_handle, input_handle, target, max_message_size, link_pc >>
    /\ UNCHANGED non_link_vars

\* closed and error only fill the Detach frame
send_detach(sent) ==
    /\ link_pc = "idle"
    /\ sent = "ok" => link_written.attach + link_written.detach < MaxLinkWritten
    /\ LET to == send_detach_match(link_local_state)
       IN IF output_handle = NoHandle
          THEN /\ link_last_call' = Call("send_detach", IllegalState, NoValue)
               /\ UNCHANGED << link_local_state, link_written, link_hist, link_pc >>
          ELSE IF to = IllegalState
          THEN /\ link_last_call' = Call("send_detach", IllegalState, NoValue)
               /\ UNCHANGED << link_local_state, link_written, link_hist, link_pc >>
          ELSE \* the state changes before the frame is handed to the session
               /\ link_local_state' = to
               /\ link_hist' = LinkRecord("send_detach", link_local_state, to)
               \* writer.send(LinkFrame::Detach(detach)).await, first poll
               /\ CASE sent = "ok" ->
                         /\ link_written' = [link_written EXCEPT !.detach = @ + 1]
                         /\ link_last_call' = Call("send_detach", "Ok", NoValue)
                         /\ UNCHANGED link_pc
                    [] sent = "pending" ->
                         /\ link_pc' = "send_detach"
                         /\ link_last_call' = Call("send_detach", "Pending", NoValue)
                         /\ UNCHANGED link_written
                    [] OTHER ->
                         \* the failure to send is reported as amqp:illegal-state
                         /\ link_last_call' = Call("send_detach", IllegalState, NoValue)
                         /\ UNCHANGED << link_written, link_pc >>
    /\ UNCHANGED << output_handle, input_handle, target, max_message_size >>
    /\ UNCHANGED non_link_vars

\* the future of send_detach is polled again, at the send of the Detach: the
\* state was changed by the first poll
send_detach_woken(sent) ==
    /\ link_pc = "send_detach"
    /\ sent = "ok" => link_written.attach + link_written.detach < MaxLinkWritten
    /\ link_pc' = "idle"
    /\ IF sent = "ok"
       THEN /\ link_written' = [link_written EXCEPT !.detach = @ + 1]
            /\ link_last_call' = Call("send_detach", "Ok", NoValue)
       ELSE /\ link_last_call' = Call("send_detach", IllegalState, NoValue)
            /\ UNCHANGED link_written
    /\ UNCHANGED << link_local_state, output_handle, input_handle, target,
                    max_message_size, link_hist >>
    /\ UNCHANGED non_link_vars

\* the future of send_detach is dropped while Pending: the call never returns,
\* no Detach is written and the state stays changed
send_detach_cancelled ==
    /\ link_pc = "send_detach"
    /\ link_pc' = "idle"
    /\ link_last_call' = Call("send_detach", "Cancelled", NoValue)
    /\ UNCHANGED << link_local_state, output_handle, input_handle, target,
                    max_message_size, link_written, link_hist >>
    /\ UNCHANGED non_link_vars

(* --------------------------- resume_delivery --------------------------- *)

\* largest section number and section offset a Received state carries
MaxSectionNumber == 1
MaxSectionOffset == 4
\* most sections a payload is made of
MaxSections == 2

\* Option<DeliveryState>; a state other than Received carries no position
State(kind) == [kind |-> kind, section_number |-> 0, section_offset |-> 0]
Received(section_number, section_offset) ==
    [kind |-> "Received", section_number |-> section_number, section_offset |-> section_offset]
NoState == State("None")
\* remote: the outer None, no entry in the remote unsettled map
NoEntry == State("NoEntry")

TerminalKinds == { "Accepted", "Rejected", "Released", "Modified" }
TransactionKinds == { "Declared", "TransactionalState" }

ReceivedStates ==
    { Received(n, o) : n \in 0 .. MaxSectionNumber, o \in 0 .. MaxSectionOffset }

\* the delivery states the build knows
DeliveryStates(txn) ==
    ReceivedStates \cup { State(k) : k \in TerminalKinds }
        \cup (IF txn THEN { State(k) : k \in TransactionKinds } ELSE {})

\* the three bytes of a section header (described type, smallulong, descriptor
\* code of the data section) and a byte of a section's body
SectionHeader == << 0, 83, 117 >>
BodyByte == 160
\* bytes of the body of a section
SectionBodyLens == { 0, 2 }

RECURSIVE Body(_)
Body(n) == IF n = 0 THEN << >> ELSE << BodyByte >> \o Body(n - 1)

\* the encoded sections whose bodies have the lengths lens
RECURSIVE Encoded(_)
Encoded(lens) ==
    IF lens = << >> THEN << >>
    ELSE SectionHeader \o Body(Head(lens)) \o Encoded(Tail(lens))

Payloads ==
    { Encoded(lens) : lens \in UNION { [1 .. n -> SectionBodyLens] : n \in 1 .. MaxSections } }

MessageFormats == { 0, 1 }

\* Option<Payload>
NoPayload == [some |-> FALSE, bytes |-> << >>]
SomePayload(bytes) == [some |-> TRUE, bytes |-> bytes]

\* receiver_link::is_section_header
is_section_header(b0, b1, b2) == b0 = 0 /\ b1 = 83 /\ b2 \in 112 .. 120

\* PartialOrd of Received: section_number, then section_offset
received_le(a, b) ==
    \/ a.section_number < b.section_number
    \/ a.section_number = b.section_number /\ a.section_offset <= b.section_offset

\* the loop of split_off_at_section_and_offset from index i on; section_counter
\* is -1 for None
RECURSIVE split_off_scan(_, _, _, _, _, _)
split_off_scan(payload, section, offset, i, section_counter, last_section_index) ==
    IF i + 3 > Len(payload)
    THEN NoPayload
    ELSE LET header == is_section_header(payload[i + 1], payload[i + 2], payload[i + 3])
             counter == IF header THEN section_counter + 1 ELSE section_counter
             last == IF header THEN i ELSE last_section_index
         IN IF counter = section /\ i - last = offset
            THEN SomePayload(SubSeq(payload, i + 1, Len(payload)))
            ELSE split_off_scan(payload, section, offset, i + 1, counter, last)

split_off_at_section_and_offset(payload, section, offset) ==
    split_off_scan(payload, section, offset, 0, -1, 0)

\* Option<ResumingDelivery> and what was done to the unsettled message:
\* settle is "none", "settle" or "settle_with_state", the latter with settle_state;
\* sender is where the oneshot sender of the message went: "caller" before the
\* call, "handed over" inside the returned action, "fired" by settle or
\* settle_with_state, "dropped" if it went nowhere
Resuming(action, payload, state, message_format, settle, settle_state, sender) ==
    [action |-> action, payload |-> payload, local_state |-> state,
     message_format |-> message_format, settle |-> settle, settle_state |-> settle_state,
     sender |-> sender]

NotCalled == Resuming("NotCalled", << >>, NoState, 0, "none", NoState, "caller")

\* an Abort with sender: None
Abort_without_sender(message) ==
    Resuming("Abort", << >>, NoState, message.message_format, "none", NoState, "dropped")

\* ResumingDelivery::Abort { message_format, sender: Some(local.sender) }
Abort(message) ==
    Resuming("Abort", << >>, NoState, message.message_format, "none", NoState, "handed over")
Resend(message) ==
    Resuming("Resend", message.payload, message.state, message.message_format, "none",
             NoState, "handed over")
Resume(message, payload) ==
    Resuming("Resume", payload, message.state, message.message_format, "none", NoState,
             "handed over")
RestateOutcome(message) ==
    Resuming("RestateOutcome", message.payload, message.state, message.message_format,
             "none", NoState, "handed over")
\* local.settle() and local.settle_with_state(remote_state) take the message and
\* send on its oneshot sender
Settle(message) == Resuming("None", << >>, NoState, 0, "settle", NoState, "fired")
SettleWithState(message, state) ==
    Resuming("None", << >>, NoState, 0, "settle_with_state", state, "fired")

\* an entry without a delivery state is taken for no entry
remote_state_of_absent(r) == IF r.kind = "None" THEN NoEntry ELSE r

\* remote.map(|inner| inner.unwrap_or(Received { 0, 0 }))
remote_state_of(r) == IF r.kind = "None" THEN Received(0, 0) ELSE r

\* a delivery the remote has no entry for is resumed instead of resent
resume_remote_absent_resume(message) ==
    IF message.state.kind \in { "None", "Received" }
    THEN Resume(message, message.payload)
    ELSE Settle(message)

\* the arms of the match whose remote state is None (no entry)
resume_remote_absent(message) ==
    IF message.state.kind \in { "None", "Received" }
    THEN Resend(message)
    ELSE Settle(message)

\* the remaining payload: split_off_at_section_and_offset(..).unwrap_or(local.payload)
remaining(payload, section, offset) ==
    LET split == split_off_at_section_and_offset(payload, section, offset)
    IN IF split.some THEN split.bytes ELSE payload

\* the arms of the match whose remote state is Received
resume_remote_received(message, remote_state) ==
    CASE message.state.kind = "None" ->
             Resume(message, remaining(message.payload, remote_state.section_number,
                                       remote_state.section_offset))
      [] message.state.kind = "Received" ->
             IF received_le(message.state, remote_state)
             THEN Resume(message, remaining(message.payload, remote_state.section_number,
                                            remote_state.section_offset))
             ELSE Abort(message)
      [] OTHER -> Abort(message)

\* the outcomes differ and the delivery is settled as the remote has it
resume_remote_terminal_settle(message, remote_state) ==
    IF message.state.kind \in { "None", "Received" }
    THEN SettleWithState(message, remote_state)
    ELSE IF message.state.kind = remote_state.kind
    THEN Settle(message)
    ELSE SettleWithState(message, remote_state)

\* the arms of the match whose remote state is a terminal outcome
resume_remote_terminal(message, remote_state) ==
    IF message.state.kind \in { "None", "Received" }
    THEN SettleWithState(message, remote_state)
    ELSE IF message.state.kind = remote_state.kind
    THEN Settle(message)
    ELSE RestateOutcome(message)

\* only Declared is taken for a state of a transaction
is_transactional_declared(state) == state.kind = "Declared"

\* the first arm of the match: Declared or TransactionalState
is_transactional(state) == state.kind \in TransactionKinds

resume_delivery(message, r) ==
    LET remote_state == IF r = NoEntry THEN NoEntry ELSE remote_state_of(r)
    IN IF is_transactional(message.state) \/ is_transactional(remote_state)
       THEN Abort(message)
       ELSE IF remote_state = NoEntry
       THEN resume_remote_absent(message)
       ELSE IF remote_state.kind = "Received"
       THEN resume_remote_received(message, remote_state)
       ELSE resume_remote_terminal(message, remote_state)

\* an unsettled message and what the remote unsettled map holds for it
ResumeInit ==
    /\ transaction \in BOOLEAN
    /\ resume_local \in [state : {NoState} \cup DeliveryStates(transaction), payload : Payloads,
                  message_format : MessageFormats]
    /\ resume_remote \in {NoEntry, NoState} \cup DeliveryStates(transaction)
    /\ resuming = NotCalled

ResumeIdle ==
    /\ transaction = FALSE
    /\ resume_local = [state |-> NoState, payload |-> Encoded(<< 0 >>), message_format |-> 0]
    /\ resume_remote = NoEntry
    /\ resuming = NotCalled

resume_delivery_call ==
    /\ resuming = NotCalled
    /\ resuming' = resume_delivery(resume_local, resume_remote)
    /\ UNCHANGED << transaction, resume_local, resume_remote >>
    /\ UNCHANGED non_resume_vars

(* ----------------------------- send_transfer --------------------------- *)

\* largest link credit the receiver grants
MaxCredit == 2

\* units of link credit send_transfer consumes
credit_per_transfer == 1

\* util::Consume::consume(count) can complete: the credit is there
can_consume(credit, count) == credit >= count

\* the link flow state of a link, with or without credit and drain
FlowInit ==
    /\ link_credit \in 0 .. MaxCredit
    /\ drain \in BOOLEAN
    /\ transfer_pc = "idle"
    /\ credit_consumed = 0
    /\ transfers_written = 0

FlowIdle ==
    /\ FlowInit
    /\ link_credit = 0
    /\ drain = FALSE

\* send_transfer up to the point where it waits for credit
send_transfer ==
    /\ transfer_pc = "idle"
    /\ IF drain
       THEN /\ link_last_call' = Call("send_transfer", "Ok", NoValue)
            /\ UNCHANGED transfer_pc
       ELSE /\ transfer_pc' = "consume"
            /\ UNCHANGED link_last_call
    /\ UNCHANGED << link_credit, drain, credit_consumed, transfers_written >>
    /\ UNCHANGED << link_local_state, output_handle, input_handle, target, max_message_size,
                    link_written, link_hist, link_pc >>
    /\ UNCHANGED non_flow_vars

\* send_transfer from the point where the credit is consumed: todo!() follows
send_transfer_consume ==
    /\ transfer_pc = "consume"
    /\ can_consume(link_credit, credit_per_transfer)
    /\ link_credit' = link_credit - credit_per_transfer
    /\ credit_consumed' = credit_consumed + credit_per_transfer
    /\ transfer_pc' = "panicked"
    /\ link_last_call' = Call("send_transfer", "panic", NoValue)
    /\ UNCHANGED << drain, transfers_written >>
    /\ UNCHANGED << link_local_state, output_handle, input_handle, target, max_message_size,
                    link_written, link_hist, link_pc >>
    /\ UNCHANGED non_flow_vars

\* the receiver grants credit, or asks the sender to drain
flow_state_update(credit, drain_flag) ==
    /\ link_credit' = credit
    /\ drain' = drain_flag
    /\ << link_credit', drain' >> # << link_credit, drain >>
    /\ UNCHANGED << transfer_pc, credit_consumed, transfers_written >>
    /\ UNCHANGED link_vars
    /\ UNCHANGED non_flow_vars

(* --------------------------- ConnectionHandle -------------------------- *)

\* what the connection answers to AllocateSession
Answers == { "Ok", "IllegalState", "ChannelMaxReached" }

\* a responder that was dropped counts as a session allocated
resp_rx_result_ok(responder_state, answered) ==
    IF responder_state = "dropped" THEN "Ok" ELSE answered

\* the result of resp_rx.await.map_err(..)?: the responder was dropped, or answered
resp_rx_result(responder_state, answered) ==
    IF responder_state = "dropped" THEN "Io" ELSE answered

HandleInit ==
    /\ rx_alive = TRUE
    /\ responder = "none"
    /\ answer = "none"
    /\ alloc_pc = "idle"
    /\ alloc_result = "none"
    /\ handle_dropped = FALSE

\* ConnectionHandle::allocate_session is called: the oneshot channel is created
ConnectionHandle_allocate_session ==
    /\ ~handle_dropped
    /\ alloc_pc \in { "idle", "returned" }
    /\ alloc_pc' = "sending"
    /\ responder' = "created"
    /\ answer' = "none"
    /\ alloc_result' = "none"
    /\ UNCHANGED << rx_alive, handle_dropped >>
    /\ UNCHANGED conn_vars
    /\ UNCHANGED non_handle_vars

\* self.control.send(AllocateSession { tx, responder }).await?
ConnectionHandle_allocate_session_send ==
    /\ alloc_pc = "sending"
    /\ IF ~rx_alive
       THEN /\ alloc_pc' = "returned"
            /\ alloc_result' = "Io"
            /\ responder' = "dropped"
            /\ UNCHANGED << control, control_waiters, control_permits >>
       ELSE \/ /\ Sender_send("handle", "AllocateSession")
               /\ responder' = "queued"
               /\ alloc_pc' = "awaiting"
               /\ UNCHANGED alloc_result
            \/ /\ Sender_wait("handle")
               /\ UNCHANGED << responder, alloc_pc, alloc_result >>
    /\ UNCHANGED << rx_alive, answer, handle_dropped >>
    /\ UNCHANGED << local_state, local_open, local_sessions, session_by_incoming_channel,
                    session_by_outgoing_channel, remote_open, agreed_channel_max, written,
                    engine_pc, outgoing_channel, next_tx, last_call, conn_hist >>
    /\ UNCHANGED non_handle_vars

\* resp_rx.await.map_err(..)?
ConnectionHandle_allocate_session_recv ==
    /\ alloc_pc = "awaiting"
    /\ responder \in { "answered", "dropped" }
    /\ alloc_pc' = "returned"
    /\ alloc_result' = resp_rx_result(responder, answer)
    /\ UNCHANGED << rx_alive, responder, answer, handle_dropped >>
    /\ UNCHANGED conn_vars
    /\ UNCHANGED non_handle_vars

\* Drop for ConnectionHandle: control.try_send(Close(None)), the result ignored
ConnectionHandle_drop ==
    /\ ~handle_dropped
    /\ alloc_pc \in { "idle", "returned" }
    /\ handle_dropped' = TRUE
    /\ IF rx_alive /\ ControlFree > 0
       THEN control' = Append(control, "Close")
       ELSE UNCHANGED control
    /\ UNCHANGED << control_waiters, control_permits >>
    /\ UNCHANGED << rx_alive, responder, answer, alloc_pc, alloc_result >>
    /\ UNCHANGED << local_state, local_open, local_sessions, session_by_incoming_channel,
                    session_by_outgoing_channel, remote_open, agreed_channel_max, written,
                    engine_pc, outgoing_channel, next_tx, last_call, conn_hist >>
    /\ UNCHANGED non_handle_vars

\* a session that holds a clone of the control sender sends DropSession
Session_drop ==
    /\ rx_alive
    /\ ControlFree > 0
    /\ control' = Append(control, "DropSession")
    /\ UNCHANGED << control_waiters, control_permits >>
    /\ UNCHANGED handle_vars
    /\ UNCHANGED << local_state, local_open, local_sessions, session_by_incoming_channel,
                    session_by_outgoing_channel, remote_open, agreed_channel_max, written,
                    engine_pc, outgoing_channel, next_tx, last_call, conn_hist >>
    /\ UNCHANGED non_handle_vars

\* the event loop takes the next command off the control channel
Receiver_recv ==
    /\ rx_alive
    \* the event loop is the one task that receives, and it is not within a handler
    /\ engine_pc = "running"
    /\ control # << >>
    /\ control' = Tail(control)
    \* the slot of the command goes to the sender that waited longest
    /\ control_waiters' = IF control_waiters = << >> THEN << >> ELSE Tail(control_waiters)
    /\ control_permits' = IF control_waiters = << >> THEN control_permits
                          ELSE control_permits \cup { Head(control_waiters) }
    /\ responder' = IF Head(control) = "AllocateSession" THEN "held" ELSE responder
    /\ UNCHANGED << rx_alive, answer, alloc_pc, alloc_result, handle_dropped >>
    /\ UNCHANGED << local_state, local_open, local_sessions, session_by_incoming_channel,
                    session_by_outgoing_channel, remote_open, agreed_channel_max, written,
                    engine_pc, outgoing_channel, next_tx, last_call, conn_hist >>
    /\ UNCHANGED non_handle_vars

\* the event loop answers the command it took
Responder_send(answered) ==
    /\ responder = "held"
    /\ responder' = "answered"
    /\ answer' = answered
    /\ UNCHANGED << rx_alive, alloc_pc, alloc_result, handle_dropped >>
    /\ UNCHANGED conn_vars
    /\ UNCHANGED non_handle_vars

\* the event loop drops the responder without an answer
Responder_drop ==
    /\ responder = "held"
    /\ responder' = "dropped"
    /\ UNCHANGED << rx_alive, answer, alloc_pc, alloc_result, handle_dropped >>
    /\ UNCHANGED conn_vars
    /\ UNCHANGED non_handle_vars

\* the event loop stops: the receiver is dropped with all it holds
Receiver_drop ==
    /\ rx_alive
    /\ rx_alive' = FALSE
    /\ control' = << >>
    /\ control_waiters' = << >>
    /\ control_permits' = {}
    /\ responder' = IF responder \in { "queued", "held" } THEN "dropped" ELSE responder
    /\ UNCHANGED << answer, alloc_pc, alloc_result, handle_dropped >>
    /\ UNCHANGED << local_state, local_open, local_sessions, session_by_incoming_channel,
                    session_by_outgoing_channel, remote_open, agreed_channel_max, written,
                    engine_pc, outgoing_channel, next_tx, last_call, conn_hist >>
    /\ UNCHANGED non_handle_vars

(* ------------------------------- IoReader ------------------------------ *)

\* most bytes of an input, and the bytes it is made of
MaxStreamLen == 3
StreamBytes == { 0, 1 }
\* largest buffer read_exact is asked to fill
MaxReadLen == 2

Streams == UNION { [1 .. n -> StreamBytes] : n \in 0 .. MaxStreamLen }

\* Option<u8>::None
NoByte == -1

\* Result<u8, Error>, Result<[u8; N], Error>: the bytes returned, or an error
ReaderCall(op, ok, bytes) == [op |-> op, ok |-> ok, bytes |-> bytes]

\* io::Read::read_exact of the inner reader: whether n bytes are left to fill the
\* buffer, the bytes, and how far the reader may have moved after the call; on an
\* error it is unspecified how many bytes were read
inner_read_exact_ok(n) == reader_pos + n <= Len(reader_bytes)
inner_read_exact_bytes(n) == SubSeq(reader_bytes, reader_pos + 1, reader_pos + n)
inner_read_exact_pos(n) ==
    IF inner_read_exact_ok(n) THEN { reader_pos + n }
    ELSE reader_pos .. Len(reader_bytes)

ReaderInit ==
    /\ reader_bytes \in Streams
    /\ reader_pos = 0
    /\ next_byte = NoByte
    /\ taken = << >>
    /\ reader_last = ReaderCall("new", TRUE, << >>)

ReaderIdle ==
    /\ ReaderInit
    /\ reader_bytes = << >>

\* IoReader::peek
IoReader_peek ==
    /\ IF next_byte # NoByte
       THEN /\ reader_last' = ReaderCall("peek", TRUE, << next_byte >>)
            /\ reader_pos' = reader_pos
       ELSE /\ reader_pos' \in inner_read_exact_pos(1)
            /\ reader_last' = IF inner_read_exact_ok(1)
                              THEN ReaderCall("peek", TRUE, inner_read_exact_bytes(1))
                              ELSE ReaderCall("peek", FALSE, << >>)
    /\ UNCHANGED << reader_bytes, next_byte, taken >>
    /\ UNCHANGED non_reader_vars

\* IoReader::next
IoReader_next ==
    /\ IF next_byte # NoByte
       THEN /\ reader_last' = ReaderCall("next", TRUE, << next_byte >>)
            /\ reader_pos' = reader_pos
       ELSE /\ reader_pos' \in inner_read_exact_pos(1)
            /\ reader_last' = IF inner_read_exact_ok(1)
                              THEN ReaderCall("next", TRUE, inner_read_exact_bytes(1))
                              ELSE ReaderCall("next", FALSE, << >>)
    /\ next_byte' = NoByte
    /\ taken' = taken \o reader_last'.bytes
    /\ UNCHANGED reader_bytes
    /\ UNCHANGED non_reader_vars

\* IoReader::read_exact with a buffer of n bytes, as read_const_bytes::<n> and
\* read_bytes(n) call it
IoReader_read_exact(n) ==
    /\ n > 0 \/ next_byte = NoByte
    /\ LET inner == IF next_byte # NoByte THEN n - 1 ELSE n
           first == IF next_byte # NoByte THEN << next_byte >> ELSE << >>
       IN /\ reader_pos' \in inner_read_exact_pos(inner)
          /\ reader_last' = IF inner_read_exact_ok(inner)
                            THEN ReaderCall("read_exact", TRUE,
                                            first \o inner_read_exact_bytes(inner))
                            ELSE ReaderCall("read_exact", FALSE, << >>)
          /\ next_byte' = IF inner_read_exact_ok(inner) THEN NoByte ELSE next_byte
    /\ taken' = taken \o reader_last'.bytes
    /\ UNCHANGED reader_bytes
    /\ UNCHANGED non_reader_vars

(* ----------------------------- AmqpSequence ---------------------------- *)

\* most items of the list that is the body of a sequence
MaxBodyLen == 2

\* descriptor of amqp-sequence: its name and its code
AmqpSequenceName == "amqp:amqp-sequence:list"
AmqpSequenceCode == 118

\* serde_amqp::descriptor::Descriptor
Name(symbol) == [kind |-> "Name", name |-> symbol, code |-> 0, items |-> << >>]
Code(c) == [kind |-> "Code", name |-> "", code |-> c, items |-> << >>]
\* a list of items, and a value that is neither a descriptor nor a list
List(items) == [kind |-> "List", name |-> "", code |-> 0, items |-> items]
Other == [kind |-> "Other", name |-> "", code |-> 0, items |-> << >>]

\* the descriptors of the sections of a message
DescriptorNames == { "amqp:amqp-sequence:list", "amqp:amqp-value:*", "amqp:data:binary" }
DescriptorCodes == 112 .. 120
Descriptors == { Name(n) : n \in DescriptorNames } \cup { Code(c) : c \in DescriptorCodes }

Bodies == UNION { [1 .. n -> { 0, 1 }] : n \in 0 .. MaxBodyLen }
Elements == Descriptors \cup { List(b) : b \in Bodies } \cup { Other }

\* Result<Deserializable<AmqpSequence<T>>, A::Error>
SeqOk(items) == [ok |-> TRUE, value |-> items, error |-> ""]
SeqErr(message) == [ok |-> FALSE, value |-> << >>, error |-> message]
SeqNotCalled == SeqErr("not called")

\* a descriptor that is a code is taken for the descriptor of the sequence
descriptor_matches_any_code(descriptor) ==
    IF descriptor.kind = "Name"
    THEN descriptor.name = AmqpSequenceName
    ELSE TRUE

\* match __descriptor { Name(__symbol) => .., Code(__c) => .. }
descriptor_matches(descriptor) ==
    IF descriptor.kind = "Name"
    THEN descriptor.name = AmqpSequenceName
    ELSE descriptor.code = AmqpSequenceCode

\* Visitor::visit_seq; __seq.next_element()? fails when the next element is not
\* of the type asked for
visit_seq(elements) ==
    IF Len(elements) = 0 THEN SeqErr("Expecting descriptor")
    ELSE IF elements[1].kind \notin { "Name", "Code" } THEN SeqErr("decode")
    ELSE IF ~descriptor_matches(elements[1]) THEN SeqErr("Descriptor mismatch")
    ELSE IF Len(elements) < 2 THEN SeqErr("Insufficient number of items")
    ELSE IF elements[2].kind # "List" THEN SeqErr("decode")
    ELSE SeqOk(elements[2].items)

SeqInit ==
    /\ seq_elements \in UNION { [1 .. n -> Elements] : n \in 0 .. 2 }
    /\ seq_result = SeqNotCalled

SeqIdle ==
    /\ seq_elements = << >>
    /\ seq_result = SeqNotCalled

\* Deserializable<AmqpSequence<T>>::deserialize
AmqpSequence_deserialize ==
    /\ seq_result = SeqNotCalled
    /\ seq_result' = visit_seq(seq_elements)
    /\ UNCHANGED seq_elements
    /\ UNCHANGED non_de_vars

(* ----------------------------- LinkAcceptor ---------------------------- *)

\* capacities of the channels outgoing and session_control of a session
OutgoingCap == 1
SessionControlCap == 1

\* AttachError
AttachErrors ==
    { "IllegalSessionState", "HandleMaxReached", "DuplicatedLinkName", "SourceIsNone",
      "TargetIsNone", "ReceiverSettleModeNotSupported", "SenderSettleModeNotSupported",
      "Local" }

\* Option<Attach>: the role of the remote peer, and whether the Attach carries a
\* source and a target
NoAttach == [some |-> FALSE, role |-> "Sender", source |-> FALSE, target |-> FALSE]
SomeAttach(role, has_source, has_target) ==
    [some |-> TRUE, role |-> role, source |-> has_source, target |-> has_target]
RemoteAttaches ==
    { NoAttach } \cup
    { SomeAttach(role, has_source, has_target) :
          role \in { "Sender", "Receiver" }, has_source \in BOOLEAN, has_target \in BOOLEAN }

\* LinkFrame::Attach and LinkFrame::Detach
AttachFrame(has_source, has_target) ==
    [frame |-> "Attach", source |-> has_source, target |-> has_target, condition |-> ""]
DetachFrame(condition) ==
    [frame |-> "Detach", source |-> FALSE, target |-> FALSE, condition |-> condition]

\* reject_incoming_attach: the remote Attach with its target, or its source, removed
local_attach(attach) ==
    IF attach.role = "Sender"
    THEN AttachFrame(attach.source, FALSE)
    ELSE AttachFrame(FALSE, attach.target)

\* outgoing.send(frame): the frame is queued unless the session was dropped
reject_incoming_attach(attach, outgoing, sent) ==
    IF sent = "ok" THEN Append(outgoing, local_attach(attach)) ELSE outgoing

\* a frame and a control that another sender of the two channels queued
OtherFrame == DetachFrame("other")
OtherControl == "Other"

\* the arguments of handle_attach_error and the two channels of a session, empty
\* or filled by other senders, or of a session that was dropped
AcceptInit ==
    /\ attach_error \in AttachErrors
    /\ rejected_attach \in RemoteAttaches
    /\ session_rx \in BOOLEAN
    /\ acceptor_outgoing \in
           IF session_rx
           THEN UNION { [1 .. n -> { OtherFrame }] : n \in 0 .. OutgoingCap }
           ELSE { << >> }
    /\ acceptor_control \in
           IF session_rx
           THEN UNION { [1 .. n -> { OtherControl }] : n \in 0 .. SessionControlCap }
           ELSE { << >> }
    /\ outgoing_taken = << >>
    /\ control_taken = << >>
    /\ accept_pc = "idle"

AcceptIdle ==
    /\ AcceptInit
    /\ attach_error = "Local"
    /\ rejected_attach = NoAttach
    /\ session_rx
    /\ acceptor_outgoing = << >>
    /\ acceptor_control = << >>

\* the match on the error: the IllegalSessionState arm sends an End to the
\* session, every other arm is todo!()
after_reject(error) == IF error = "IllegalSessionState" THEN "send_end" ELSE "panicked"

\* a poll of Sender::send completes when the task has cooperative budget left
\* (proceeds) and the channel has room or its receiver is gone; otherwise it is
\* Pending and nothing is queued
send_ready(proceeds, queue, capacity) ==
    proceeds /\ (~session_rx \/ Len(queue) < capacity)

\* one poll of the future of handle_attach_error from the position pc: it runs
\* until a send is Pending or until todo!(). attach_proceeds and end_proceeds say
\* whether the task has budget left at the send of the Attach and of the End. The
\* result of reject_incoming_attach and of session_control.send is not looked at.
handle_attach_error_poll(pc, attach_proceeds, end_proceeds) ==
    LET start == IF pc = "idle"
                 THEN (IF rejected_attach.some THEN "send_attach"
                       ELSE after_reject(attach_error))
                 ELSE pc
        attach_ready == send_ready(attach_proceeds, acceptor_outgoing, OutgoingCap)
        reached == IF start = "send_attach" /\ attach_ready
                   THEN after_reject(attach_error)
                   ELSE start
        end_ready == send_ready(end_proceeds, acceptor_control, SessionControlCap)
    IN /\ acceptor_outgoing' =
              IF start = "send_attach" /\ attach_ready
              THEN reject_incoming_attach(rejected_attach, acceptor_outgoing,
                                          IF session_rx THEN "ok" ELSE "err")
              ELSE acceptor_outgoing
       /\ acceptor_control' =
              IF reached = "send_end" /\ end_ready /\ session_rx
              THEN Append(acceptor_control, "End")
              ELSE acceptor_control
       \* the statement after the match is todo!()
       /\ accept_pc' = IF reached = "send_end" /\ end_ready THEN "panicked" ELSE reached

\* handle_attach_error is called: the first poll of its future
handle_attach_error ==
    /\ accept_pc = "idle"
    /\ \E attach_proceeds, end_proceeds \in BOOLEAN :
           handle_attach_error_poll(accept_pc, attach_proceeds, end_proceeds)
    /\ UNCHANGED << attach_error, rejected_attach, outgoing_taken, control_taken, session_rx >>
    /\ UNCHANGED non_accept_vars

\* the future is polled again at the send it stopped at
handle_attach_error_woken ==
    /\ accept_pc \in { "send_attach", "send_end" }
    /\ \E attach_proceeds, end_proceeds \in BOOLEAN :
           handle_attach_error_poll(accept_pc, attach_proceeds, end_proceeds)
    /\ UNCHANGED << attach_error, rejected_attach, outgoing_taken, control_taken, session_rx >>
    /\ UNCHANGED non_accept_vars

\* the session takes a frame from outgoing
SessionEngine_recv_outgoing ==
    /\ session_rx
    /\ acceptor_outgoing # << >>
    /\ acceptor_outgoing' = Tail(acceptor_outgoing)
    /\ outgoing_taken' = Append(outgoing_taken, Head(acceptor_outgoing))
    /\ UNCHANGED << attach_error, rejected_attach, acceptor_control, control_taken,
                    session_rx, accept_pc >>
    /\ UNCHANGED non_accept_vars

\* the session takes a control from session_control
SessionEngine_recv_control ==
    /\ session_rx
    /\ acceptor_control # << >>
    /\ acceptor_control' = Tail(acceptor_control)
    /\ control_taken' = Append(control_taken, Head(acceptor_control))
    /\ UNCHANGED << attach_error, rejected_attach, acceptor_outgoing, outgoing_taken,
                    session_rx, accept_pc >>
    /\ UNCHANGED non_accept_vars

\* the session stops: both receivers are dropped with what they hold
SessionEngine_drop ==
    /\ session_rx
    /\ session_rx' = FALSE
    /\ acceptor_outgoing' = << >>
    /\ acceptor_control' = << >>
    /\ UNCHANGED << attach_error, rejected_attach, outgoing_taken, control_taken, accept_pc >>
    /\ UNCHANGED non_accept_vars

(* ------------------------------ Serializer ----------------------------- *)

\* most elements of a list, fields of a struct or of an enum variant
MaxFields == 2
\* most entries of a map
MaxEntries == 1
\* values given to one Serializer, one after the other
MaxCalls == 3

\* constructor::EncodingCodes, the format codes of AMQP 1.0
EncodingCodes ==
    [DescribedType |-> 0, Null |-> 64, Uint0 |-> 67, Ulong0 |-> 68, List0 |-> 69,
     SmallUint |-> 82, SmallUlong |-> 83, SmallInt |-> 84, SmallLong |-> 85,
     Uint |-> 112, Int |-> 113, Ulong |-> 128, Long |-> 129,
     VBin8 |-> 160, Str8 |-> 161, Sym8 |-> 163, VBin32 |-> 176, Str32 |-> 177,
     Sym32 |-> 179, List8 |-> 192, Map8 |-> 193, List32 |-> 208, Map32 |-> 209]

\* An unsigned integer (u32, u64, usize) is the sequence of its 16-bit digits,
\* the most significant first: two for a u32, four for a u64 and for a usize.
Limb == 65536
U32(hi, lo) == << hi, lo >>
Usize(n) == << 0, 0, n \div Limb, n % Limb >>
\* value::U32_MAX_AS_USIZE
U32_MAX_AS_USIZE == << 0, 0, 65535, 65535 >>

\* a <= b, for two integers of the same width
RECURSIVE limbs_le(_, _)
limbs_le(a, b) ==
    IF a = << >> THEN TRUE
    ELSE IF Head(a) # Head(b) THEN Head(a) < Head(b)
    ELSE limbs_le(Tail(a), Tail(b))

\* v == 0, and v in 1..=255
is_zero(v) == \A i \in DOMAIN v : v[i] = 0
is_small(v) == ~is_zero(v) /\ v[Len(v)] <= 255 /\ \A i \in 1 .. (Len(v) - 1) : v[i] = 0
\* v as u8
as_u8(v) == v[Len(v)] % 256
\* v as u32
as_u32(v) == << v[Len(v) - 1], v[Len(v)] >>

\* to_be_bytes of an unsigned integer
RECURSIVE to_be_bytes(_)
to_be_bytes(v) ==
    IF v = << >> THEN << >>
    ELSE << Head(v) \div 256, Head(v) % 256 >> \o to_be_bytes(Tail(v))

\* v as u8 of a signed integer in -128..=127
signed_as_u8(v) == IF v < 0 THEN v + 256 ELSE v

\* to_be_bytes of an i32, and of an i64 that is within the range of an i32
i32_to_be_bytes(v) ==
    LET u == IF v < 0 THEN (v + 2147483647) + 1 ELSE v
        top == u \div 16777216
    IN << IF v < 0 THEN top + 128 ELSE top, (u \div 65536) % 256, (u \div 256) % 256, u % 256 >>
i64_to_be_bytes(v) ==
    LET sign == IF v < 0 THEN 255 ELSE 0
    IN << sign, sign, sign, sign >> \o i32_to_be_bytes(v)

\* In the bytes written, a negative number -n stands for n bytes of the content of
\* a string, a symbol or a binary; write_all(v.as_bytes()) writes them as they are.
MaxRun == 1073741824
RECURSIVE Runs(_)
Runs(n) == IF n = 0 THEN << >> ELSE << 0 - MaxRun >> \o Runs(n - 1)
Content(l) ==
    LET rest == (l[3] % 16384) * Limb + l[4]
    IN Runs(l[3] \div 16384) \o (IF rest = 0 THEN << >> ELSE << 0 - rest >>)

\* Vec::len of bytes written
RECURSIVE ByteLen(_)
ByteLen(bytes) ==
    IF bytes = << >> THEN 0
    ELSE (IF Head(bytes) < 0 THEN 0 - Head(bytes) ELSE 1) + ByteLen(Tail(bytes))

\* the values given to the Serializer: kind names the method of serde's data model
\* that the value's Serialize calls
Value(kind, n, i, name, fields) ==
    [kind |-> kind, n |-> n, i |-> i, name |-> name, fields |-> fields]
U32Value(v) == Value("u32", v, 0, "", << >>)
U64Value(v) == Value("u64", v, 0, "", << >>)
I32Value(v) == Value("i32", << >>, v, "", << >>)
I64Value(v) == Value("i64", << >>, v, "", << >>)
StrValue(l) == Value("str", l, 0, "", << >>)
BytesValue(l) == Value("bytes", l, 0, "", << >>)
\* types::Symbol: a newtype struct named SYMBOL_MAGIC around a string
SymbolValue(l) == Value("symbol", l, 0, "", << >>)
SeqValue(elements) == Value("seq", << >>, 0, "", elements)
\* fields: key, value, key, value, ...
MapValue(entries) == Value("map", << >>, 0, "", entries)
\* an enum variant with fields; l is the length of the name of the variant
TupleVariantValue(l, fields) == Value("tuple_variant", l, 0, "", fields)
StructVariantValue(l, fields) == Value("struct_variant", l, 0, "", fields)
StructValue(name, fields) == Value("struct", << >>, 0, name, fields)

DESCRIBED_BASIC == "DESCRIBED_BASIC"
DESCRIBED_LIST == "DESCRIBED_LIST"
DESCRIBED_MAP == "DESCRIBED_MAP"
DESCRIPTOR == "DESCRIPTOR"

\* descriptor::Descriptor with a code, and with a name of l bytes: a struct named
\* DESCRIPTOR whose one field is the code, or the name as a symbol
DescriptorCode(code) == StructValue(DESCRIPTOR, << U64Value(<< 0, 0, 0, code >>) >>)
DescriptorName(l) == StructValue(DESCRIPTOR, << SymbolValue(l) >>)

\* Described<T>::serialize: serialize_struct(name, 2), the descriptor, the value
Described(encoding_type, descriptor, value) ==
    StructValue(CASE encoding_type = "Basic" -> DESCRIBED_BASIC
                  [] encoding_type = "List" -> DESCRIBED_LIST
                  [] encoding_type = "Map" -> DESCRIBED_MAP,
                << descriptor, value >>)

\* Result<(), Error>, the bytes written to the writer and Serializer::state
SerResult(ok, out, state) == [ok |-> ok, out |-> out, state |-> state]

\* Serializer::serialize_u32, serialize_u64
serialize_u32(v) ==
    IF is_zero(v) THEN << EncodingCodes.Uint0 >>
    ELSE IF is_small(v) THEN << EncodingCodes.SmallUint, as_u8(v) >>
    ELSE << EncodingCodes.Uint >> \o to_be_bytes(v)

serialize_u64(v) ==
    IF is_zero(v) THEN << EncodingCodes.Ulong0 >>
    ELSE IF is_small(v) THEN << EncodingCodes.SmallUlong, as_u8(v) >>
    ELSE << EncodingCodes.Ulong >> \o to_be_bytes(v)

\* Serializer::serialize_i32, serialize_i64
serialize_i32(v) ==
    IF v \in -128 .. 127 THEN << EncodingCodes.SmallInt, signed_as_u8(v) >>
    ELSE << EncodingCodes.Int >> \o i32_to_be_bytes(v)

serialize_i64(v) ==
    IF v \in -128 .. 127 THEN << EncodingCodes.SmallLong, signed_as_u8(v) >>
    ELSE << EncodingCodes.Long >> \o i64_to_be_bytes(v)

\* the 8-bit form is chosen up to 254 bytes
length_form_254(l) ==
    IF limbs_le(l, Usize(254)) THEN "8"
    ELSE IF limbs_le(l, U32_MAX_AS_USIZE) THEN "32"
    ELSE "Too long"

\* match l { 0..=255 => .., 256..=U32_MAX_AS_USIZE => .., _ => Err("Too long") }
length_form(l) ==
    IF limbs_le(l, Usize(255)) THEN "8"
    ELSE IF limbs_le(l, U32_MAX_AS_USIZE) THEN "32"
    ELSE "Too long"

\* the constructor and the length of a value of l bytes
variable_width(code8, code32, l) ==
    IF length_form(l) = "8" THEN << code8, as_u8(l) >>
    ELSE << code32 >> \o to_be_bytes(as_u32(l))

\* Serializer::serialize_str
serialize_str(l, state) ==
    IF length_form(l) = "Too long" THEN SerResult(FALSE, << >>, state)
    ELSE IF state = "Symbol"
    THEN SerResult(TRUE, variable_width(EncodingCodes.Sym8, EncodingCodes.Sym32, l)
                             \o Content(l), "None")
    ELSE SerResult(TRUE, variable_width(EncodingCodes.Str8, EncodingCodes.Str32, l)
                             \o Content(l), state)

\* Serializer::serialize_bytes
serialize_bytes(l, state) ==
    IF length_form(l) = "Too long" THEN SerResult(FALSE, << >>, state)
    ELSE SerResult(TRUE, variable_width(EncodingCodes.VBin8, EncodingCodes.VBin32, l)
                             \o Content(l), state)

\* write_seq: the constructor of a list of num elements whose encodings are buf
write_seq(num, buf) ==
    LET len == Usize(ByteLen(buf))
    IN IF is_zero(len) THEN SerResult(TRUE, << EncodingCodes.List0 >>, "None")
       ELSE IF length_form(len) = "8"
       THEN SerResult(TRUE, << EncodingCodes.List8, as_u8(len), num % 256 >> \o buf, "None")
       ELSE IF length_form(len) = "32"
       THEN SerResult(TRUE, << EncodingCodes.List32 >> \o to_be_bytes(as_u32(len))
                                \o to_be_bytes(as_u32(Usize(num))) \o buf, "None")
       ELSE SerResult(FALSE, << >>, "None")

\* write_map: the constructor of a map whose count is num
write_map(num, buf) ==
    LET len == Usize(ByteLen(buf))
    IN IF length_form(len) = "8"
       THEN SerResult(TRUE, << EncodingCodes.Map8, as_u8(len), num % 256 >> \o buf, "None")
       ELSE IF length_form(len) = "32"
       THEN SerResult(TRUE, << EncodingCodes.Map32 >> \o to_be_bytes(as_u32(len))
                                \o to_be_bytes(as_u32(Usize(num))) \o buf, "None")
       ELSE SerResult(FALSE, << >>, "None")

\* Serializer::serialize_map: Compound::new(self, num * 2)
map_num(entries) == entries * 2

\* VariantSerializer::end: write_map(&mut se.writer, num, buf)
variant_num(fields) == fields

\* Serializer::serialize_struct: the StructSerializerType, the bytes it writes and
\* the state it leaves
serialize_struct(name, state) ==
    IF state = "None"
    THEN CASE name = DESCRIBED_LIST ->
                  [type |-> "ListValue", out |-> << EncodingCodes.DescribedType >>,
                   state |-> "DescribedList"]
           [] name = DESCRIBED_MAP ->
                  [type |-> "MapValue", out |-> << EncodingCodes.DescribedType >>,
                   state |-> "DescribedMap"]
           [] name = DESCRIBED_BASIC ->
                  [type |-> "BasicValue", out |-> << EncodingCodes.DescribedType >>,
                   state |-> "DescribedBasic"]
           [] name = DESCRIPTOR -> [type |-> "Descriptor", out |-> << >>, state |-> state]
           [] OTHER -> [type |-> "ListValue", out |-> << >>, state |-> state]
    ELSE CASE state = "DescribedBasic" -> [type |-> "BasicValue", out |-> << >>, state |-> state]
           [] state = "DescribedList" -> [type |-> "ListValue", out |-> << >>, state |-> state]
           [] state = "DescribedMap" -> [type |-> "MapValue", out |-> << >>, state |-> state]
           [] OTHER -> [type |-> "unreachable", out |-> << >>, state |-> state]

RECURSIVE Serialize(_, _)
RECURSIVE serialize_fields(_, _, _)
RECURSIVE serialize_elements(_, _)
RECURSIVE serialize_entries(_)

\* value.serialize(&mut serializer), for a serializer in the given state
Serialize(value, state) ==
    CASE value.kind = "u32" -> SerResult(TRUE, serialize_u32(value.n), state)
      [] value.kind = "u64" -> SerResult(TRUE, serialize_u64(value.n), state)
      [] value.kind = "i32" -> SerResult(TRUE, serialize_i32(value.i), state)
      [] value.kind = "i64" -> SerResult(TRUE, serialize_i64(value.i), state)
      [] value.kind = "str" -> serialize_str(value.n, state)
      [] value.kind = "bytes" -> serialize_bytes(value.n, state)
         \* serialize_newtype_struct(SYMBOL_MAGIC, ..): self.state = Symbol
      [] value.kind = "symbol" -> serialize_str(value.n, "Symbol")
         \* serialize_seq, SerializeSeq::serialize_element, SerializeSeq::end
      [] value.kind = "seq" ->
             LET buf == serialize_elements(value.fields, "None")
                 end == write_seq(Len(value.fields), buf.out)
             IN IF buf.ok THEN SerResult(end.ok, end.out, state)
                ELSE SerResult(FALSE, << >>, state)
         \* serialize_map, SerializeMap::serialize_entry, SerializeMap::end
      [] value.kind = "map" ->
             LET buf == serialize_entries(value.fields)
                 end == write_map(map_num(Len(value.fields) \div 2), buf.out)
             IN IF buf.ok THEN SerResult(end.ok, end.out, state)
                ELSE SerResult(FALSE, << >>, state)
         \* serialize_tuple_variant, serialize_struct_variant, VariantSerializer::end
      [] value.kind \in { "tuple_variant", "struct_variant" } ->
             LET list_buf == serialize_elements(value.fields, "None")
                 val_buf == write_seq(Len(value.fields), list_buf.out)
                 key == serialize_str(value.n, "None")
                 end == write_map(variant_num(Len(value.fields)), key.out \o val_buf.out)
             IN IF list_buf.ok /\ val_buf.ok /\ key.ok
                THEN SerResult(end.ok, end.out, state)
                ELSE SerResult(FALSE, << >>, state)
         \* serialize_struct, SerializeStruct::serialize_field, SerializeStruct::end
      [] value.kind = "struct" ->
             LET struct == serialize_struct(value.name, state)
             IN CASE struct.type \in { "Descriptor", "BasicValue" } ->
                         LET fields == serialize_fields(value.fields, struct.state, TRUE)
                         IN SerResult(fields.ok, struct.out \o fields.out, fields.state)
                  [] struct.type = "ListValue" ->
                         LET buf == serialize_elements(value.fields, "DescribedList")
                             end == write_seq(Len(value.fields), buf.out)
                         IN IF buf.ok
                            THEN SerResult(end.ok, struct.out \o end.out, struct.state)
                            ELSE SerResult(FALSE, struct.out, struct.state)
                  [] struct.type = "MapValue" ->
                         LET buf == serialize_elements(value.fields, "DescribedMap")
                             end == write_map(Len(value.fields), buf.out)
                         IN IF buf.ok
                            THEN SerResult(end.ok, struct.out \o end.out, struct.state)
                            ELSE SerResult(FALSE, struct.out, struct.state)
                     \* SerializerState::Symbol => unreachable!()
                  [] OTHER -> SerResult(FALSE, << >>, "panicked")

\* the fields of a struct written by the serializer of the struct itself, one
\* after the other: value.serialize(self.as_mut())
serialize_fields(fields, state, ok) ==
    IF fields = << >> \/ ~ok THEN SerResult(ok, << >>, state)
    ELSE LET first == Serialize(Head(fields), state)
             rest == serialize_fields(Tail(fields), first.state, first.ok)
         IN SerResult(rest.ok, first.out \o rest.out, rest.state)

\* the elements of a list, or the fields of a struct, written to a buffer, each
\* by a new serializer in the given state
serialize_elements(elements, state) ==
    IF elements = << >> THEN SerResult(TRUE, << >>, state)
    ELSE LET first == Serialize(Head(elements), state)
             rest == serialize_elements(Tail(elements), state)
         IN SerResult(first.ok /\ rest.ok, first.out \o rest.out, state)

\* the entries of a map written to a buffer: a new serializer for each entry
\* writes the key and then the value
serialize_entries(entries) ==
    IF Len(entries) < 2 THEN SerResult(TRUE, << >>, "None")
    ELSE LET key == Serialize(entries[1], "None")
             value == Serialize(entries[2], key.state)
             rest == serialize_entries(Tail(Tail(entries)))
         IN SerResult(key.ok /\ value.ok /\ rest.ok, key.out \o value.out \o rest.out, "None")

\* the integers, and the lengths of strings, symbols and binaries, at and next to
\* the limits of the forms
U32Values ==
    { U32(0, 0), U32(0, 1), U32(0, 255), U32(0, 256), U32(1, 0), U32(65535, 65535) }
U64Values ==
    { << 0, 0, 0, 0 >>, << 0, 0, 0, 1 >>, << 0, 0, 0, 255 >>, << 0, 0, 0, 256 >>,
      << 0, 0, 1, 0 >>, << 0, 1, 0, 255 >>, << 65535, 65535, 65535, 65535 >> }
SignedValues == { -2147483647, -32768, -129, -128, -1, 0, 127, 128, 2147483647 }
Lengths ==
    { Usize(0), Usize(1), Usize(255), Usize(256), Usize(65536), U32_MAX_AS_USIZE,
      << 0, 1, 0, 0 >>, << 1, 0, 0, 5 >> }

Scalars ==
    { U32Value(v) : v \in U32Values } \cup { U64Value(v) : v \in U64Values }
        \cup { I32Value(v) : v \in SignedValues } \cup { I64Value(v) : v \in SignedValues }
        \cup { StrValue(l) : l \in Lengths } \cup { SymbolValue(l) : l \in Lengths }
        \cup { BytesValue(l) : l \in Lengths }

\* the elements of lists and maps, and the fields of structs
Fields ==
    { U32Value(U32(0, 0)), I32Value(-1), SymbolValue(Usize(1)), StrValue(Usize(253)),
      StrValue(Usize(254)) }
FieldLists == UNION { [1 .. n -> Fields] : n \in 0 .. MaxFields }
EntryLists == UNION { [1 .. (2 * n) -> Fields] : n \in 0 .. MaxEntries }

SerDescriptors == { DescriptorCode(117), DescriptorName(Usize(4)) }
EncodingTypes == { "Basic", "List", "Map" }

\* the bodies of described values: a primitive, a struct and a described value
DescribedBodies ==
    { U32Value(U32(0, 1)), StrValue(Usize(1)) }
        \cup { StructValue("Foo", f) : f \in FieldLists }
        \cup { Described("Basic", DescriptorCode(118), U32Value(U32(0, 1))) }

DescribedValues ==
    { Described(e, d, b) : e \in EncodingTypes, d \in SerDescriptors, b \in DescribedBodies }

SerValues ==
    Scalars
        \cup { SeqValue(f) : f \in FieldLists }
        \cup { MapValue(f) : f \in EntryLists }
        \cup { TupleVariantValue(Usize(3), f) : f \in FieldLists }
        \cup { StructVariantValue(Usize(3), f) : f \in FieldLists }
        \cup { StructValue("Foo", f) : f \in FieldLists }
        \cup DescribedValues

SerNotCalled == SerResult(FALSE, << >>, "not called")

\* Serializer::new
SerializerNew ==
    /\ serializer_state = "None"
    /\ writer = << >>
    /\ serializer_calls = << >>

SerInit ==
    /\ ser_value \in SerValues
    /\ ser_result = SerNotCalled
    /\ SerializerNew

SerIdle ==
    /\ ser_value = U32Value(U32(0, 0))
    /\ ser_result = SerNotCalled
    /\ SerializerNew

\* to_vec: value.serialize(&mut Serializer::new(&mut writer))
to_vec ==
    /\ ser_result = SerNotCalled
    /\ ser_result' = Serialize(ser_value, "None")
    /\ UNCHANGED << ser_value, serializer_state, writer, serializer_calls >>
    /\ UNCHANGED non_ser_vars

\* enum SerializerState
SerializerStates == { "None", "Symbol", "DescribedList", "DescribedMap", "DescribedBasic" }

\* Serializer::new, Serializer::none, Serializer::symbol,
\* Serializer::described_list, Serializer::described_map and
\* Serializer::described_basic: a Serializer in the state the function names
SerializerCreated ==
    /\ serializer_state \in SerializerStates
    /\ writer = << >>
    /\ serializer_calls = << >>

\* the values given to one Serializer: strings and symbols that fit the short
\* form, the long form and no form, an integer and a struct
SerializerValues ==
    { StrValue(Usize(1)), StrValue(Usize(256)), SymbolValue(Usize(4)),
      SymbolValue(Usize(256)), SymbolValue(<< 1, 0, 0, 5 >>), U32Value(U32(0, 1)),
      StructValue("Foo", << I32Value(-1) >>) }

\* value.serialize(&mut serializer), for a Serializer that may have been given
\* values before; a call that returns an error has written nothing, and a
\* Serializer that panicked is not used again. Each call is recorded with the
\* state it found.
Serializer_serialize(value) ==
    /\ Len(serializer_calls) < MaxCalls
    /\ serializer_state # "panicked"
    /\ LET result == Serialize(value, serializer_state)
       IN /\ serializer_state' = result.state
          /\ writer' = writer \o result.out
          /\ serializer_calls' =
                 Append(serializer_calls,
                        [value |-> value, state |-> serializer_state, ok |-> result.ok,
                         out |-> result.out])
    /\ UNCHANGED << ser_value, ser_result >>
    /\ UNCHANGED non_ser_vars

(* --------------------------- specifications --------------------------- *)


\* the connection while a specification explores the link, and the reverse
ConnIdle ==
    /\ ConnInit
    /\ local_state = "HeaderExchange"
    /\ local_open = [channel_max |-> 0]

LinkIdle ==
    /\ LinkInit
    /\ output_handle = NoHandle
    /\ target = "none"
    /\ max_message_size = 0

\* the codec while a specification explores an endpoint
CodecIdle == ReaderIdle /\ SeqIdle /\ AcceptIdle /\ SerIdle

\* the endpoints while a specification explores the codec
EndpointIdle == ConnIdle /\ LinkIdle /\ ResumeIdle /\ FlowIdle /\ HandleInit

Init == ConnInit /\ LinkIdle /\ ResumeIdle /\ FlowIdle /\ HandleInit /\ CodecIdle

\* Every method, called in any order; one session endpoint is created, so that
\* the state machine is explored together with a slot, but not with every
\* arrangement of slots (SpecAlloc explores those).
Next ==
    \/ \E tx \in Txs : next_tx = 1 /\ allocate_session(tx)
    \/ \E session_id \in OutgoingChannels : deallocate_session(session_id)
    \/ \E open \in RemoteOpens : on_incoming_open(0, open)
    \/ \E channel \in IncomingChannels, remote_channel \in OutgoingChannels \cup {NoChannel},
          sent \in PollResults : on_incoming_begin(channel, remote_channel, sent)
    \/ \E sent \in SendResults : on_incoming_begin_woken(sent)
    \/ \E channel \in IncomingChannels, sent \in PollResults : on_incoming_end(channel, sent)
    \/ \E sent \in SendResults : on_incoming_end_woken(sent)
    \/ \E close_error \in BOOLEAN : on_incoming_close(0, close_error)
    \/ on_incoming_close_woken
    \/ \E sent \in SendResults : send_open(sent)
    \/ \E channel \in OutgoingChannels : on_outgoing_end(channel)
    \/ \E sent \in SendResults : send_close(sent)
    \/ ConnectionHandle_close

Spec == Init /\ [][Next]_vars

\* The connection being opened and its sessions allocated and deallocated in any
\* order: the Open frames are exchanged over a transport that accepts them, and
\* sessions come and go before, between and after them.
NextAlloc ==
    \/ \E tx \in Txs : allocate_session(tx)
    \/ \E session_id \in OutgoingChannels : deallocate_session(session_id)
    \/ \E channel \in OutgoingChannels : on_outgoing_end(channel)
    \/ \E open \in RemoteOpens : on_incoming_open(0, open)
    \/ send_open_match(local_state) # IllegalState /\ send_open("ok")

SpecAlloc == Init /\ [][NextAlloc]_vars

InitLink == ConnIdle /\ LinkInit /\ ResumeIdle /\ FlowIdle /\ HandleInit /\ CodecIdle

\* The sender link: every method, called in any order
NextLink ==
    \/ \E attach \in Attaches : on_incoming_attach(attach)
    \/ \E detach_error \in BOOLEAN : on_incoming_detach(detach_error)
    \/ \E sent \in SendResults : send_attach(sent)
    \/ \E sent \in PollResults : send_detach(sent)
    \/ \E sent \in SendResults : send_detach_woken(sent)
    \/ send_detach_cancelled

SpecLink == InitLink /\ [][NextLink]_vars

InitResume == ConnIdle /\ LinkIdle /\ ResumeInit /\ FlowIdle /\ HandleInit /\ CodecIdle

\* resume_delivery, called once with every pair of local and remote state
NextResume ==
    \/ resume_delivery_call

SpecResume == InitResume /\ [][NextResume]_vars

InitFlow == ConnIdle /\ LinkInit /\ ResumeIdle /\ FlowInit /\ HandleInit /\ CodecIdle

\* send_transfer on a link whose receiver grants credit and asks to drain
NextFlow ==
    \/ send_transfer
    \/ send_transfer_consume
    \/ \E credit \in 0 .. MaxCredit, drain_flag \in BOOLEAN : flow_state_update(credit, drain_flag)

SpecFlow == InitFlow /\ [][NextFlow]_vars

InitHandle == ConnIdle /\ LinkIdle /\ ResumeIdle /\ FlowIdle /\ HandleInit /\ CodecIdle

\* the ConnectionHandle, the Connection that is opened and receives the remote
\* Close, and the other ends of their channels
NextHandle ==
    \/ rx_alive /\ send_open_match(local_state) # IllegalState /\ send_open("ok")
    \/ rx_alive /\ \E open \in RemoteOpens : on_incoming_open(0, open)
    \/ rx_alive /\ \E close_error \in BOOLEAN : on_incoming_close(0, close_error)
    \/ rx_alive /\ on_incoming_close_woken
    \/ ConnectionHandle_allocate_session
    \/ ConnectionHandle_allocate_session_send
    \/ ConnectionHandle_allocate_session_recv
    \/ ConnectionHandle_drop
    \/ Session_drop
    \/ Receiver_recv
    \/ \E answered \in Answers : Responder_send(answered)
    \/ Responder_drop
    \/ Receiver_drop

\* the caller awaits the future of allocate_session, so it is polled until it
\* returns; the event loop's task is polled while on_incoming_close is Pending
SpecHandle ==
    /\ InitHandle
    /\ [][NextHandle]_vars
    /\ WF_vars(ConnectionHandle_allocate_session_send)
    /\ WF_vars(ConnectionHandle_allocate_session_recv)
    /\ WF_vars(rx_alive /\ on_incoming_close_woken)

InitReader == EndpointIdle /\ ReaderInit /\ SeqIdle /\ AcceptIdle /\ SerIdle

\* an IoReader over an input: peek, next and read_exact in any order
NextReader ==
    \/ IoReader_peek
    \/ IoReader_next
    \/ \E n \in 0 .. MaxReadLen : IoReader_read_exact(n)

SpecReader == InitReader /\ [][NextReader]_vars

InitSeq == EndpointIdle /\ ReaderIdle /\ SeqInit /\ AcceptIdle /\ SerIdle

\* an AmqpSequence decoded from every list of elements
NextSeq ==
    \/ AmqpSequence_deserialize

SpecSeq == InitSeq /\ [][NextSeq]_vars

InitAccept == EndpointIdle /\ ReaderIdle /\ SeqIdle /\ AcceptInit /\ SerIdle

\* handle_attach_error, called with every error and polled until it ends, and
\* the session that takes what is queued in its two channels, or stops
NextAccept ==
    \/ handle_attach_error
    \/ handle_attach_error_woken
    \/ SessionEngine_recv_outgoing
    \/ SessionEngine_recv_control
    \/ SessionEngine_drop

SpecAccept == InitAccept /\ [][NextAccept]_vars

InitSer == EndpointIdle /\ ReaderIdle /\ SeqIdle /\ AcceptIdle /\ SerInit

\* to_vec, called with every value
NextSer ==
    \/ to_vec

SpecSer == InitSer /\ [][NextSer]_vars

InitSerializer ==
    /\ EndpointIdle /\ ReaderIdle /\ SeqIdle /\ AcceptIdle
    /\ ser_value = U32Value(U32(0, 0))
    /\ ser_result = SerNotCalled
    /\ SerializerCreated

\* one Serializer, created by any of its constructors and given strings,
\* symbols, integers and structs in any order
NextSerializer ==
    \/ \E value \in SerializerValues : Serializer_serialize(value)

SpecSerializer == InitSerializer /\ [][NextSerializer]_vars

(* ------------------------------- claims -------------------------------- *)

\* the last change of local_state, and the one before it
Last(h) == h[Len(h)]
First(h) == h[1]

\* C1: starting from HeaderExchange, once send_open and on_incoming_open have both
\* taken effect, in either order, the connection went through OpenSent (local Open
\* first) or OpenReceived (remote Open first) and is Opened.
C1_OpenHandshake ==
    (/\ Len(conn_hist) = 2
     /\ First(conn_hist).from = "HeaderExchange"
     /\ { First(conn_hist).op, Last(conn_hist).op } = { "send_open", "on_incoming_open" })
    => /\ First(conn_hist).to =
              (IF First(conn_hist).op = "send_open" THEN "OpenSent" ELSE "OpenReceived")
       /\ Last(conn_hist).from = First(conn_hist).to
       /\ Last(conn_hist).to = "Opened"
       /\ local_state = "Opened"

\* the remote Open arrived first and the local Open was sent after it
C1_Witness ==
    /\ Len(conn_hist) = 2
    /\ First(conn_hist) = [op |-> "on_incoming_open", from |-> "HeaderExchange", to |-> "OpenReceived"]
    /\ Last(conn_hist).op = "send_open"
    /\ local_state = "Opened"
    /\ written.open = 1
    /\ remote_open.present

\* C2: starting from Opened, once send_close and on_incoming_close have both taken
\* effect, in either order, the connection went through CloseSent (local Close
\* first) or CloseReceived (remote Close first) and is in End.
C2_CloseHandshake ==
    (/\ Len(conn_hist) = 2
     /\ First(conn_hist).from = "Opened"
     /\ { First(conn_hist).op, Last(conn_hist).op } = { "send_close", "on_incoming_close" })
    => /\ First(conn_hist).to =
              (IF First(conn_hist).op = "send_close" THEN "CloseSent" ELSE "CloseReceived")
       /\ Last(conn_hist).from = First(conn_hist).to
       /\ Last(conn_hist).to = "End"
       /\ local_state = "End"

\* the remote Close arrived first and the local Close was sent after it
C2_Witness ==
    /\ Len(conn_hist) = 2
    /\ First(conn_hist) = [op |-> "on_incoming_close", from |-> "Opened", to |-> "CloseReceived"]
    /\ Last(conn_hist).op = "send_close"
    /\ local_state = "End"
    /\ written.close = 1

\* C3: starting from Unattached with an output handle, once send_attach and
\* on_incoming_attach have both taken effect, in either order, the sender link went
\* through AttachSent (local Attach first) or AttachReceived (remote Attach first)
\* and is Attached.
C3_AttachHandshake ==
    (/\ Len(link_hist) = 2
     /\ First(link_hist).from = "Unattached"
     /\ { First(link_hist).op, Last(link_hist).op } = { "send_attach", "on_incoming_attach" })
    => /\ First(link_hist).to =
              (IF First(link_hist).op = "send_attach" THEN "AttachSent" ELSE "AttachReceived")
       /\ Last(link_hist).from = First(link_hist).to
       /\ Last(link_hist).to = "Attached"
       /\ link_local_state = "Attached"

\* the remote Attach arrived first and the local Attach was sent after it
C3_Witness ==
    /\ Len(link_hist) = 2
    /\ First(link_hist) = [op |-> "on_incoming_attach", from |-> "Unattached", to |-> "AttachReceived"]
    /\ Last(link_hist).op = "send_attach"
    /\ link_local_state = "Attached"
    /\ output_handle # NoHandle
    /\ link_written.attach = 1

\* C4: starting from Attached, a Detach frame that the session accepts takes the link
\* to DetachSent and the remote Detach then to Detached; the remote Detach takes it
\* to DetachReceived and a Detach frame that the session accepts then to Detached.
C4_DetachHandshake ==
    [][ /\ (link_local_state = "Attached" /\ send_detach("ok"))
            => link_local_state' = "DetachSent"
        /\ (link_local_state = "DetachSent" /\ \E e \in BOOLEAN : on_incoming_detach(e))
            => link_local_state' = "Detached"
        /\ (link_local_state = "Attached" /\ \E e \in BOOLEAN : on_incoming_detach(e))
            => link_local_state' = "DetachReceived"
        /\ (link_local_state = "DetachReceived" /\ send_detach("ok"))
            => link_local_state' = "Detached" ]_vars

\* the connection states in which each handler defines a transition
HasTransition(op, s) ==
    CASE op = "on_incoming_open" -> s \in { "HeaderExchange", "OpenSent", "ClosePipe" }
      [] op = "on_incoming_begin" -> s = "Opened"
      [] op = "on_incoming_end" -> s = "Opened"
      [] op = "on_incoming_close" -> s \in { "Opened", "CloseSent" }
      [] op = "send_open" -> s \in { "HeaderExchange", "OpenReceived", "HeaderSent" }
      [] op = "send_close" -> s \in { "Opened", "CloseReceived", "OpenSent", "OpenPipe" }

\* the step is a call of op
Called(op) ==
    CASE op = "on_incoming_open" -> \E open \in RemoteOpens : on_incoming_open(0, open)
      [] op = "on_incoming_begin" ->
             \E channel \in IncomingChannels, remote_channel \in OutgoingChannels \cup {NoChannel},
                sent \in PollResults : on_incoming_begin(channel, remote_channel, sent)
      [] op = "on_incoming_end" ->
             \E channel \in IncomingChannels, sent \in PollResults : on_incoming_end(channel, sent)
      [] op = "on_incoming_close" -> \E close_error \in BOOLEAN : on_incoming_close(0, close_error)
      [] op = "send_open" -> \E sent \in SendResults : send_open(sent)
      [] op = "send_close" -> \E sent \in SendResults : send_close(sent)

\* C5: a call of on_incoming_open, on_incoming_begin, on_incoming_end,
\* on_incoming_close, send_open or send_close in a state for which it defines no
\* transition fails with amqp:illegal-state and leaves local_state,
\* agreed_channel_max, remote_open and both channel maps as they were.
C5_IllegalStateRejected ==
    [][ \A op \in { "on_incoming_open", "on_incoming_begin", "on_incoming_end",
                    "on_incoming_close", "send_open", "send_close" } :
            (Called(op) /\ ~HasTransition(op, local_state))
            => /\ last_call'.res = "IllegalState"
               /\ UNCHANGED << local_state, agreed_channel_max, remote_open,
                               session_by_incoming_channel, session_by_outgoing_channel >> ]_vars

\* the changes of a sender link's local_state that the state machine lists
ListedLinkTransitions ==
    { << "send_attach", "Unattached", "AttachSent" >>,
      << "on_incoming_attach", "AttachSent", "Attached" >>,
      << "on_incoming_attach", "Unattached", "AttachReceived" >>,
      << "send_attach", "AttachReceived", "Attached" >>,
      << "send_detach", "Attached", "DetachSent" >>,
      << "on_incoming_detach", "DetachSent", "Detached" >>,
      << "on_incoming_detach", "Attached", "DetachReceived" >>,
      << "send_detach", "DetachReceived", "Detached" >>,
      << "send_attach", "Detached", "AttachSent" >> }

\* the two more that the code makes
CodeLinkTransitions ==
    ListedLinkTransitions \cup
        { << "send_attach", "DetachSent", "AttachSent" >>,
          << "on_incoming_attach", "Detached", "AttachReceived" >> }

\* op has a transition of T out of state s
LinkHasTransition(T, op, s) == \E t \in T : t[1] = op /\ t[2] = s

\* C6 (as claimed): every change of local_state by one of the four handlers is a
\* listed transition, and a handler called in a state from which it has no listed
\* transition fails with amqp:illegal-state and leaves local_state as it was.
C6_OnlyListedTransitions ==
    [][ /\ link_local_state' # link_local_state
            => << link_last_call'.op, link_local_state, link_local_state' >>
                   \in ListedLinkTransitions
        /\ (link_pc = "idle" /\ link_last_call' # link_last_call
            /\ ~LinkHasTransition(ListedLinkTransitions, link_last_call'.op, link_local_state))
            => /\ link_last_call'.res = "IllegalState"
               /\ link_local_state' = link_local_state ]_vars

\* C6 (amended): every change of local_state is a listed transition or one of
\* DetachSent->AttachSent (send_attach) and Detached->AttachReceived
\* (on_incoming_attach); a handler called in a state from which it has none of
\* these fails and leaves local_state as it was, with amqp:illegal-state or, for
\* send_attach on a link without output handle, with amqp:invalid-field.
C6_OnlyCodeTransitions ==
    [][ /\ link_local_state' # link_local_state
            => << link_last_call'.op, link_local_state, link_local_state' >>
                   \in CodeLinkTransitions
        /\ (link_pc = "idle" /\ link_last_call' # link_last_call
            /\ ~LinkHasTransition(CodeLinkTransitions, link_last_call'.op, link_local_state))
            => /\ link_local_state' = link_local_state
               /\ IF link_last_call'.op = "send_attach" /\ output_handle = NoHandle
                  THEN link_last_call'.res = "InvalidField"
                  ELSE link_last_call'.res = "IllegalState" ]_vars

\* send_attach took the link from DetachSent back to AttachSent
C6_Witness ==
    /\ link_hist # << >>
    /\ Last(link_hist) = [op |-> "send_attach", from |-> "DetachSent", to |-> "AttachSent"]
    /\ link_local_state = "AttachSent"

\* C7: every outgoing channel bound to a session is <= agreed_channel_max.
C7_ChannelsWithinAgreedMax ==
    \A channel \in DOMAIN session_by_outgoing_channel : channel <= agreed_channel_max

\* the channels the live sessions were handed
HeldChannels == { outgoing_channel[tx] : tx \in LiveTxs(local_sessions) }

\* C8: no two live sessions hold the same outgoing channel.
C8_DistinctChannels ==
    /\ LiveTxs(local_sessions) \subseteq DOMAIN outgoing_channel
    /\ \A tx1, tx2 \in LiveTxs(local_sessions) :
           tx1 # tx2 => outgoing_channel[tx1] # outgoing_channel[tx2]

\* two sessions are live after a third was allocated and deallocated
C8_Witness ==
    /\ Cardinality(LiveTxs(local_sessions)) = 2
    /\ next_tx = 4
    /\ last_call = Call("allocate_session", "Ok", 0)

\* the lowest channel no live session holds
LowestFreeChannel == CHOOSE c \in 0 .. MaxTx : c \notin HeldChannels /\ \A b \in 0 .. (c - 1) : b \in HeldChannels

\* the step is a call of allocate_session that the connection state allows
AllocateCalled ==
    /\ allocate_session_allowed(local_state)
    /\ \E tx \in Txs : allocate_session(tx)

\* C9 (as claimed): allocate_session returns the lowest channel no live session
\* holds, and fails with ChannelMaxReached only when no channel <=
\* agreed_channel_max is free.
C9_LowestFreeChannel ==
    [][ AllocateCalled
        => /\ last_call'.res = "Ok" => last_call'.ret = LowestFreeChannel
           /\ last_call'.res = "ChannelMaxReached" => LowestFreeChannel > agreed_channel_max ]_vars

\* the slots of local_sessions that are vacant
VacantSlots == (0 .. (Len(local_sessions.entries) - 1)) \ LiveSessions(local_sessions)

\* C9 (amended): allocate_session returns a channel that no live session holds and
\* that is <= agreed_channel_max: a vacant slot when local_sessions has one (the
\* most recently vacated, not the lowest), else the number of slots; it fails with
\* ChannelMaxReached exactly when that channel would be > agreed_channel_max.
C9_NextVacantChannel ==
    [][ AllocateCalled
        => LET key == slab_vacant_key(local_sessions)
           IN /\ IF VacantSlots = {} THEN key = Len(local_sessions.entries)
                                     ELSE key \in VacantSlots
              /\ last_call'.res = "Ok" =>
                     /\ last_call'.ret = key
                     /\ last_call'.ret \notin HeldChannels
                     /\ last_call'.ret <= agreed_channel_max
              /\ last_call'.res = "ChannelMaxReached" <=> key > agreed_channel_max
              /\ last_call'.res \in { "Ok", "ChannelMaxReached" } ]_vars

\* slot 1 was vacated after slot 0 and is handed out again while channel 0 is free
C9_Witness ==
    /\ last_call = Call("allocate_session", "Ok", 1)
    /\ LiveSessions(local_sessions) = { 1 }
    /\ next_tx = 4

\* C10: before a remote Open is received agreed_channel_max is the local
\* channel_max; after on_incoming_open has succeeded it is the smaller of the local
\* and the remote channel_max.
C10_AgreedChannelMax ==
    /\ ~remote_open.present => agreed_channel_max = local_open.channel_max
    /\ remote_open.present =>
           /\ agreed_channel_max <= local_open.channel_max
           /\ agreed_channel_max <= remote_open.channel_max
           /\ agreed_channel_max \in { local_open.channel_max, remote_open.channel_max }

\* a remote Open that announces more channels than the local one was received
C10_Witness ==
    /\ remote_open.present
    /\ remote_open.channel_max > local_open.channel_max
    /\ last_call = Call("on_incoming_open", "Ok", NoValue)

\* C11: when the remote unsettled map has no entry for the delivery, a local state
\* of None or Received gives Resend with the whole payload, and a local terminal
\* outcome settles the delivery and gives no action.
C11_RemoteAbsent ==
    (resuming # NotCalled /\ resume_remote = NoEntry)
    => /\ resume_local.state.kind \in { "None", "Received" }
           => /\ resuming.action = "Resend"
              /\ resuming.payload = resume_local.payload
              /\ resuming.settle = "none"
       /\ resume_local.state.kind \in TerminalKinds
           => /\ resuming.action = "None"
              /\ resuming.settle = "settle"

\* a delivery that was partly received, and that the remote does not know, is resent
C11_Witness ==
    /\ resume_remote = NoEntry
    /\ resume_local.state = Received(1, 2)
    /\ resuming.action = "Resend"
    /\ Len(resuming.payload) = 8

\* the indices at which a section of the payload starts
SectionStarts(payload) ==
    { i \in 0 .. (Len(payload) - 3) :
          is_section_header(payload[i + 1], payload[i + 2], payload[i + 3]) }

\* the index of the byte at offset section_offset of section section_number, or
\* -1 if the payload has no such byte
PositionOf(payload, section_number, section_offset) ==
    LET starts == SectionStarts(payload)
        before(i) == Cardinality({ j \in starts : j < i })
        at == { i \in starts : before(i) = section_number }
    IN IF at = {} THEN -1
       ELSE LET start == CHOOSE i \in at : TRUE
                later == { j \in starts : j > start }
                end == IF later = {} THEN Len(payload)
                       ELSE CHOOSE j \in later : \A k \in later : j <= k
            IN IF start + section_offset < end THEN start + section_offset ELSE -1

\* the result is Resume with the payload from (section_number, section_offset) on
ResumedAt(state) ==
    /\ resuming.action = "Resume"
    /\ LET at == PositionOf(resume_local.payload, state.section_number, state.section_offset)
       IN at # -1 => resuming.payload = SubSeq(resume_local.payload, at + 1,
                                               Len(resume_local.payload))

\* C12: when the remote reports Received(rs, ro), a local None gives Resume with
\* the payload truncated at (rs, ro); a local Received(ls, lo) gives the same if
\* (ls, lo) <= (rs, ro) in the order of section, then offset, and Abort otherwise;
\* a local terminal outcome gives Abort.
C12_RemoteReceived ==
    (resuming # NotCalled /\ resume_remote.kind = "Received")
    => /\ resume_local.state.kind = "None" => ResumedAt(resume_remote)
       /\ resume_local.state.kind = "Received" =>
              IF \/ resume_local.state.section_number < resume_remote.section_number
                 \/ /\ resume_local.state.section_number = resume_remote.section_number
                    /\ resume_local.state.section_offset <= resume_remote.section_offset
              THEN ResumedAt(resume_remote)
              ELSE resuming.action = "Abort"
       /\ resume_local.state.kind \in TerminalKinds => resuming.action = "Abort"

\* C13: when the remote reports a terminal outcome, a local None or Received
\* settles the delivery with the remote outcome and gives no action; a local
\* terminal outcome of the same kind settles and gives no action; a local terminal
\* outcome of another kind gives RestateOutcome with the local outcome, the
\* payload and the message format.
C13_RemoteTerminal ==
    (resuming # NotCalled /\ resume_remote.kind \in TerminalKinds)
    => /\ resume_local.state.kind \in { "None", "Received" }
           => /\ resuming.action = "None"
              /\ resuming.settle = "settle_with_state"
              /\ resuming.settle_state = resume_remote
       /\ resume_local.state.kind = resume_remote.kind
           => /\ resuming.action = "None"
              /\ resuming.settle = "settle"
       /\ (resume_local.state.kind \in TerminalKinds
           /\ resume_local.state.kind # resume_remote.kind)
           => /\ resuming.action = "RestateOutcome"
              /\ resuming.local_state = resume_local.state
              /\ resuming.payload = resume_local.payload
              /\ resuming.message_format = resume_local.message_format
              /\ resuming.settle = "none"

\* the sender accepted what the receiver rejected, and restates its outcome
C13_Witness ==
    /\ resume_local.state.kind = "Accepted"
    /\ resume_remote.kind = "Rejected"
    /\ resume_local.message_format = 1
    /\ resuming.action = "RestateOutcome"
    /\ resuming.message_format = 1

\* C14: with transactions enabled, a local or a remote state of Declared or
\* TransactionalState gives Abort, whatever the other state is.
C14_TransactionalAbort ==
    (/\ resuming # NotCalled
     /\ transaction
     /\ \/ resume_local.state.kind \in TransactionKinds
        \/ resume_remote.kind \in TransactionKinds)
    => /\ resuming.action = "Abort"
       /\ resuming.message_format = resume_local.message_format
       /\ resuming.settle = "none"

\* the local state is a TransactionalState and the remote has no entry
C14_Witness ==
    /\ transaction
    /\ resume_local.state.kind = "TransactionalState"
    /\ resume_remote = NoEntry
    /\ resuming.action = "Abort"

\* C15: a sender link that is Detached after a completed detach handshake can
\* attach again: send_attach, given a session that accepts the frame, succeeds and
\* moves the link to AttachSent.
C15_ReattachFromDetached ==
    [][ (link_local_state = "Detached" /\ send_attach("ok"))
        => /\ link_last_call'.res = "Ok"
           /\ link_local_state' = "AttachSent" ]_vars

\* C16: the link gives up its output handle only on the step that completes the
\* detach handshake; when only one of the two Detach frames has been sent or
\* received, it still holds the handle.
C16_HandleHeldUntilDetached ==
    [][ /\ (output_handle # NoHandle /\ output_handle' = NoHandle)
            => link_local_state' = "Detached"
        /\ (link_local_state = "Attached"
            /\ link_local_state' \in { "DetachSent", "DetachReceived" })
            => output_handle' = output_handle ]_vars

\* C17: on an Opened connection a Begin without remote_channel is rejected with
\* amqp:not-implemented and leaves local_sessions and both channel maps as they
\* were.
C17_RemoteBeginRejected ==
    [][ (/\ local_state = "Opened"
         /\ \E channel \in IncomingChannels, sent \in PollResults :
                on_incoming_begin(channel, NoChannel, sent))
        => /\ last_call'.res = "NotImplemented"
           /\ UNCHANGED << local_state, local_sessions, session_by_incoming_channel,
                           session_by_outgoing_channel >> ]_vars

\* an Opened connection with a session allocated has rejected such a Begin
C17_Witness ==
    /\ local_state = "Opened"
    /\ last_call = Call("on_incoming_begin", "NotImplemented", NoValue)
    /\ LiveSessions(local_sessions) # {}
    /\ session_by_incoming_channel = EmptyMap

\* C18: link_credit never becomes negative, and outside the step in which a call
\* of send_transfer waits for credit, the units of link credit consumed are one for
\* each Transfer that was sent.
C18_CreditPerTransfer ==
    /\ link_credit >= 0
    /\ transfer_pc # "consume" => credit_consumed = transfers_written

\* C19: the step that drops the ConnectionHandle of a running event loop leaves a
\* Close command in the control channel, whatever the channel held before.
C19_DropSendsClose ==
    [][ (ConnectionHandle_drop /\ rx_alive)
        => \E i \in DOMAIN control' : control'[i] = "Close" ]_vars

\* the results of allocate_session that are an AllocSessionError
AllocSessionErrors == { "Io", "IllegalState", "ChannelMaxReached" }

\* C20: a call of ConnectionHandle::allocate_session that finds the receiver of the
\* control channel gone, or whose responder is dropped without an answer, returns,
\* and what it returns is an AllocSessionError.
C20_AllocateSessionReturns ==
    /\ (alloc_pc \in { "sending", "awaiting" } /\ (~rx_alive \/ responder = "dropped"))
           ~> (alloc_pc = "returned")
    /\ [](alloc_pc = "returned" /\ responder = "dropped" => alloc_result \in AllocSessionErrors)

\* the event loop stopped with the command in the channel, and the call returned
C20_Witness ==
    /\ ~rx_alive
    /\ alloc_pc = "returned"
    /\ responder = "dropped"
    /\ alloc_result = "Io"
    /\ local_state = "Opened"

\* C29: a Resume that answers a remote Received(s, o) carries the payload from the
\* byte at offset o of the s-th section on when the payload has such a byte, and
\* the whole payload when it has none.
C29_TruncationAt ==
    (resuming.action = "Resume" /\ resume_remote.kind = "Received")
    => LET at == PositionOf(resume_local.payload, resume_remote.section_number,
                            resume_remote.section_offset)
       IN resuming.payload =
              IF at = -1 THEN resume_local.payload
              ELSE SubSeq(resume_local.payload, at + 1, Len(resume_local.payload))

\* C30: an entry of the remote unsettled map that carries no delivery state gives
\* what a remote Received(0, 0) gives, for every local state: with a local state
\* of None that is Resume with the whole payload, never Resend.
C30_NullRemoteIsReceivedZero ==
    (resuming # NotCalled /\ resume_remote = NoState)
    => /\ resuming = resume_delivery(resume_local, Received(0, 0))
       /\ resume_local.state.kind = "None"
              => /\ resuming.action = "Resume"
                 /\ resuming.payload = resume_local.payload
       /\ resume_local.state.kind = "Received"
              => resuming.action =
                     IF resume_local.state = Received(0, 0) THEN "Resume" ELSE "Abort"
       /\ resume_local.state.kind \in TerminalKinds => resuming.action = "Abort"

\* a delivery of two sections without a local state, the remote entry is null
C30_Witness ==
    /\ resume_remote = NoState
    /\ resume_local.state = NoState
    /\ Len(resume_local.payload) = 8
    /\ resuming.action = "Resume"
    /\ resuming.payload = resume_local.payload

\* the calls of IoReader that return bytes of the input
ReaderOps == { "peek", "next", "read_exact" }

\* C25: peek consumes no input: a call that follows a peek, and returns bytes,
\* returns first the byte the peek returned, and the bytes that next and
\* read_exact returned are, in the order of the calls, the bytes of the input.
C25_PeekConsumesNothing ==
    [][ /\ (/\ reader_last.op = "peek" /\ reader_last.ok
            /\ reader_last' # reader_last
            /\ reader_last'.op \in ReaderOps /\ reader_last'.bytes # << >>)
           => reader_last'.bytes[1] = reader_last.bytes[1]
        /\ taken' = SubSeq(reader_bytes, 1, Len(taken')) ]_vars

\* C26: a read_exact that fails for want of bytes consumes nothing: the peek or
\* next that follows it returns the byte after those that next and read_exact
\* returned before, and an error only if the input has no such byte.
C26_FailedReadConsumesNothing ==
    [][ (/\ reader_last.op = "read_exact" /\ ~reader_last.ok
         /\ reader_last'.op \in { "peek", "next" })
        => IF Len(taken) < Len(reader_bytes)
           THEN /\ reader_last'.ok
                /\ reader_last'.bytes = << reader_bytes[Len(taken) + 1] >>
           ELSE ~reader_last'.ok ]_vars

\* C27: decoding an AmqpSequence succeeds only if the first element is the
\* descriptor named amqp:amqp-sequence:list or the descriptor code 0x76 and a
\* second element, the list, follows, and then yields that list; another
\* descriptor fails with a descriptor mismatch, and a missing descriptor or a
\* missing list fails too.
C27_SequenceDescriptor ==
    seq_result # SeqNotCalled
    => LET described == Len(seq_elements) >= 1 /\ seq_elements[1].kind \in { "Name", "Code" }
           expected == /\ described
                       /\ \/ seq_elements[1] = Name("amqp:amqp-sequence:list")
                          \/ seq_elements[1] = Code(118)
       IN /\ seq_result.ok => /\ expected
                              /\ Len(seq_elements) = 2
                              /\ seq_result.value = seq_elements[2].items
          /\ (described /\ ~expected)
                 => ~seq_result.ok /\ seq_result.error = "Descriptor mismatch"
          /\ Len(seq_elements) < 2 => ~seq_result.ok
          /\ (expected /\ Len(seq_elements) = 2 /\ seq_elements[2].kind = "List")
                 => seq_result.ok

\* the code of another section before a list: the mismatch is reported
C27_Witness ==
    /\ seq_elements = << Code(117), List(<< 0, 1 >>) >>
    /\ seq_result = SeqErr("Descriptor mismatch")

\* the errors of an Attach that the acceptor answers with a Detach
RejectedWithDetach ==
    { "HandleMaxReached", "DuplicatedLinkName", "ReceiverSettleModeNotSupported",
      "SenderSettleModeNotSupported" }

\* the frames and the controls the acceptor sent, taken by the session or not
AcceptorFrames ==
    SelectSeq(outgoing_taken \o acceptor_outgoing, LAMBDA frame : frame # OtherFrame)
AcceptorControls ==
    SelectSeq(control_taken \o acceptor_control, LAMBDA item : item # OtherControl)

\* C28: when accepting an Attach failed for the handle-max, a duplicated link name
\* or a settle mode that is not supported, and the session takes the frames, the
\* acceptor has sent an Attach without source and target and after it a Detach
\* with an amqp:link condition.
C28_AttachThenDetach ==
    (/\ accept_pc = "panicked"
     /\ attach_error \in RejectedWithDetach
     /\ rejected_attach.some
     /\ session_rx)
    => /\ Len(AcceptorFrames) = 2
       /\ AcceptorFrames[1].frame = "Attach"
       /\ ~AcceptorFrames[1].source \/ ~AcceptorFrames[1].target
       /\ AcceptorFrames[2].frame = "Detach"
       /\ AcceptorFrames[2].condition # ""

\* the value was given to to_vec, and to_vec returned Ok
Serialized == ser_result # SerNotCalled /\ ser_result.ok

\* the bytes a value is encoded as when it is serialized on its own
EncodedAlone(value) == Serialize(value, "None").out

\* the integer that four bytes, the most significant first, stand for
FromBe32(bytes) == ((bytes[1] * 256 + bytes[2]) * 256 + bytes[3]) * 256 + bytes[4]

\* the constructors of the lists and maps with a 1-byte, and with a 4-byte, size
Sized8 == { EncodingCodes.List8, EncodingCodes.Map8 }
Sized32 == { EncodingCodes.List32, EncodingCodes.Map32 }

\* C21: a described value is written as the constructor 0x00, the encoded
\* descriptor and the encoded body: in the list encoding the body of a struct is a
\* list with one element for each field of the struct, and a described value that
\* is the body of a described value has its own 0x00 and descriptor.
C21_DescribedLayout ==
    (Serialized /\ ser_value \in DescribedValues)
    => LET out == ser_result.out
           descriptor == EncodedAlone(ser_value.fields[1])
           body == ser_value.fields[2]
           rest == SubSeq(out, 2 + Len(descriptor), Len(out))
       IN /\ out[1] = 0
          /\ SubSeq(out, 2, 1 + Len(descriptor)) = descriptor
          /\ (ser_value.name = DESCRIBED_LIST /\ body.name = "Foo")
                 => /\ rest # << >>
                    /\ rest[1] = EncodingCodes.List0 => Len(body.fields) = 0
                    /\ rest[1] = EncodingCodes.List8 => rest[3] = Len(body.fields)
                    /\ rest[1] \in { EncodingCodes.List0, EncodingCodes.List8,
                                     EncodingCodes.List32 }
          /\ (ser_value.name = DESCRIBED_BASIC /\ body.name = DESCRIBED_BASIC)
                 => rest = << 0 >> \o EncodedAlone(body.fields[1])
                               \o EncodedAlone(body.fields[2])

\* C22: the size field of a list or a map that is written in a sized form is the
\* number of bytes after the size field, the count field and the elements, and
\* the form with a 1-byte size is written only if that number is at most 255.
C22_SizeField ==
    (Serialized /\ ser_value.kind \in { "seq", "map", "tuple_variant", "struct_variant" })
    => LET out == ser_result.out
       IN /\ out[1] \in Sized8 => out[2] = ByteLen(out) - 2 /\ ByteLen(out) - 2 <= 255
          /\ out[1] \in Sized32 => FromBe32(SubSeq(out, 2, 5)) = ByteLen(out) - 5

\* the count field of a list or map in a sized form
CountField(out) == IF out[1] \in Sized8 THEN out[3] ELSE FromBe32(SubSeq(out, 6, 9))

\* C23: the count field of a map is twice the number of its entries: of those
\* given to serialize_map, and of the one entry, the name of the variant and the
\* list of its fields, of the map written for a tuple or struct variant.
C23_MapCount ==
    Serialized
    => /\ ser_value.kind = "map"
           => /\ ser_result.out[1] \in { EncodingCodes.Map8, EncodingCodes.Map32 }
              /\ CountField(ser_result.out) = 2 * (Len(ser_value.fields) \div 2)
       /\ ser_value.kind \in { "tuple_variant", "struct_variant" }
           => /\ ser_result.out[1] \in { EncodingCodes.Map8, EncodingCodes.Map32 }
              /\ CountField(ser_result.out) = 2

\* the digits of an unsigned integer from its bytes, the most significant first
RECURSIVE FromBeBytes(_)
FromBeBytes(bytes) ==
    IF Len(bytes) < 2 THEN << >>
    ELSE << bytes[1] * 256 + bytes[2] >> \o FromBeBytes(Tail(Tail(bytes)))

\* the signed integer that four bytes in two's complement stand for
FromBeSigned(bytes) ==
    IF bytes[1] < 128 THEN FromBe32(bytes)
    ELSE (FromBe32(<< bytes[1] - 128, bytes[2], bytes[3], bytes[4] >>) - 2147483647) - 1

\* an unsigned integer is written in the narrowest form
NarrowestUnsigned(v, out, zero, small, full) ==
    IF \A i \in DOMAIN v : v[i] = 0 THEN out = << zero >>
    ELSE IF limbs_le(v, [i \in DOMAIN v |-> IF i = Len(v) THEN 255 ELSE 0])
    THEN out = << small, v[Len(v)] >>
    ELSE /\ out[1] = full
         /\ Len(out) = 1 + 2 * Len(v)
         /\ FromBeBytes(Tail(out)) = v

\* a signed integer is written in the narrowest form
NarrowestSigned(v, out, small, full, width) ==
    IF -128 <= v /\ v <= 127
    THEN /\ Len(out) = 2
         /\ out[1] = small
         /\ out[2] \in 0 .. 255
         /\ v = IF out[2] >= 128 THEN out[2] - 256 ELSE out[2]
    ELSE /\ out[1] = full
         /\ Len(out) = 1 + width
         /\ FromBeSigned(SubSeq(out, Len(out) - 3, Len(out))) = v
         /\ \A i \in 2 .. (Len(out) - 4) : out[i] = IF v < 0 THEN 255 ELSE 0

\* a string, symbol or binary of l bytes is written with the narrowest length
NarrowestLength(l, result, code8, code32) ==
    IF limbs_le(l, Usize(255))
    THEN /\ result.ok
         /\ SubSeq(result.out, 1, 2) = << code8, l[4] >>
         /\ ByteLen(SubSeq(result.out, 3, Len(result.out))) = l[4]
    ELSE IF limbs_le(l, << 0, 0, 65535, 65535 >>)
    THEN /\ result.ok
         /\ result.out[1] = code32
         /\ FromBeBytes(SubSeq(result.out, 2, 5)) = << l[3], l[4] >>
         /\ SubSeq(result.out, 6, Len(result.out)) = Content(l)
    ELSE ~result.ok /\ result.out = << >>

\* C24: an integer and a value of variable width is written with the narrowest
\* constructor that holds it: a u32 or u64 of 0 as the constructor alone, of 1 to
\* 255 with one byte, otherwise in full width, the most significant byte first;
\* an i32 or i64 of -128 to 127 with one byte, otherwise in full width; a string,
\* symbol or binary with a 1-byte length up to 255 bytes, with a 4-byte length up
\* to 2^32-1 bytes, and beyond that with an error and nothing written.
C24_NarrowestConstructor ==
    ser_result # SerNotCalled
    => LET out == ser_result.out
           codes == EncodingCodes
       IN /\ ser_value.kind = "u32" =>
                 ser_result.ok /\ NarrowestUnsigned(ser_value.n, out, codes.Uint0,
                                                    codes.SmallUint, codes.Uint)
          /\ ser_value.kind = "u64" =>
                 ser_result.ok /\ NarrowestUnsigned(ser_value.n, out, codes.Ulong0,
                                                    codes.SmallUlong, codes.Ulong)
          /\ ser_value.kind = "i32" =>
                 ser_result.ok /\ NarrowestSigned(ser_value.i, out, codes.SmallInt,
                                                  codes.Int, 4)
          /\ ser_value.kind = "i64" =>
                 ser_result.ok /\ NarrowestSigned(ser_value.i, out, codes.SmallLong,
                                                  codes.Long, 8)
          /\ ser_value.kind = "str" =>
                 NarrowestLength(ser_value.n, ser_result, codes.Str8, codes.Str32)
          /\ ser_value.kind = "symbol" =>
                 NarrowestLength(ser_value.n, ser_result, codes.Sym8, codes.Sym32)
          /\ ser_value.kind = "bytes" =>
                 NarrowestLength(ser_value.n, ser_result, codes.VBin8, codes.VBin32)

\* a symbol of 2^32 bytes: nothing is written and an error is returned
C24_Witness ==
    /\ ser_value = SymbolValue(<< 0, 1, 0, 0 >>)
    /\ ser_result # SerNotCalled
    /\ ~ser_result.ok
    /\ ser_result.out = << >>

\* the calls before call i of the one Serializer all returned Ok
EarlierCallsOk(i) == \A j \in 1 .. (i - 1) : serializer_calls[j].ok

\* C31: the Symbol state is entered only by the symbol wrapper and is cleared
\* by the string written next: the wrapped string, and only it, is written with
\* a symbol constructor (a symbol of 4 bytes as A3 04 and the bytes), and a
\* string serialized afterwards through the same serializer is written with a
\* string constructor.
C31_SymbolMode ==
    \A i \in 1 .. Len(serializer_calls) :
        LET call == serializer_calls[i]
        IN (call.ok /\ EarlierCallsOk(i)) =>
               /\ call.state # "Symbol"
               /\ call.value.kind = "symbol" =>
                      /\ Head(call.out) \in { EncodingCodes.Sym8, EncodingCodes.Sym32 }
                      /\ call.value.n = Usize(4) => call.out = << 163, 4, -4 >>
               /\ call.value.kind = "str" =>
                      Head(call.out) \in { EncodingCodes.Str8, EncodingCodes.Str32 }
               /\ (call.value.kind \in { "str", "symbol" } /\ i < Len(serializer_calls)) =>
                      serializer_calls[i + 1].state # "Symbol"

\* C32: send_open and send_close write a frame only when the state permits the
\* transition: a call that fails with amqp:illegal-state has written nothing,
\* and at most one Open and at most one Close are ever written.
C32_FrameOnlyWhenPermitted ==
    /\ [][ (last_call'.op \in { "send_open", "send_close" }
            /\ last_call'.res = IllegalState) => written' = written ]_vars
    /\ [](written.open <= 1 /\ written.close <= 1)

\* the session id names an occupied slot of local_sessions
NamesLiveSession(session_id) == slab_contains(local_sessions, session_id)

\* C33: every session id stored in session_by_incoming_channel or in
\* session_by_outgoing_channel names an occupied slot of local_sessions, and the
\* slot of an outgoing channel holds the session that was given that channel.
C33_ChannelsNameLiveSessions ==
    /\ \A channel \in DOMAIN session_by_incoming_channel :
           NamesLiveSession(session_by_incoming_channel[channel])
    /\ \A channel \in DOMAIN session_by_outgoing_channel :
           LET session_id == session_by_outgoing_channel[channel]
           IN /\ NamesLiveSession(session_id)
              /\ slab_get(local_sessions, session_id) \in DOMAIN outgoing_channel
              /\ outgoing_channel[slab_get(local_sessions, session_id)] = channel

\* C34: a Begin that on_incoming_begin rejects with not-found or not-allowed
\* leaves session_by_incoming_channel as it was; only an accepted Begin adds the
\* binding from the incoming channel to the session of remote_channel.
C34_RejectedBeginBindsNothing ==
    [][ (\E channel \in IncomingChannels, remote_channel \in OutgoingChannels \cup {NoChannel},
            sent \in PollResults : on_incoming_begin(channel, remote_channel, sent)) =>
            IF last_call'.res = "Ok"
            THEN \E channel \in IncomingChannels, remote_channel \in DOMAIN session_by_outgoing_channel :
                     /\ channel \notin DOMAIN session_by_incoming_channel
                     /\ session_by_incoming_channel' =
                            MapInsert(session_by_incoming_channel, channel,
                                      session_by_outgoing_channel[remote_channel])
            ELSE (last_call'.res \in { "NotFound", "NotAllowed" }
                  => UNCHANGED session_by_incoming_channel) ]_vars

\* the states before the local Open is sent, and those in which a Close was
\* sent or received
BeforeLocalOpen == { "Start", "HeaderSent", "HeaderReceived", "HeaderExchange", "OpenReceived" }
AfterClose == { "CloseSent", "CloseReceived", "ClosePipe", "OpenClosePipe", "Discarding", "End" }

\* C35: allocate_session is refused with IllegalState before the local Open was
\* sent and in every state in which a Close was sent or received, and a refused
\* call leaves local_sessions and both channel maps unchanged.
C35_AllocateOnlyWhileOpen ==
    [][ last_call'.op = "allocate_session" =>
            /\ local_state \in BeforeLocalOpen \cup AfterClose => last_call'.res = IllegalState
            /\ last_call'.res # "Ok" =>
                   UNCHANGED << local_sessions, session_by_incoming_channel,
                                session_by_outgoing_channel >> ]_vars

\* C36: handling a remote Close in Opened never blocks the event loop: a call of
\* on_incoming_close that is Pending at the send of its Close command returns,
\* however full the control channel is, and until it returns the event loop
\* has not lost the slot it needs to a command of another sender.
C36_RemoteCloseNeverBlocks ==
    /\ (engine_pc = "blocked" /\ rx_alive) ~> (engine_pc = "running" \/ ~rx_alive)
    /\ [](engine_pc = "blocked" /\ rx_alive => send_has_slot("engine"))

\* the more restrictive of two limits, 0 and an absent value meaning no limit
MoreRestrictive(local_limit, remote_limit) ==
    LET remote_size == IF remote_limit = NoSize THEN 0 ELSE remote_limit
    IN IF local_limit = 0 THEN remote_size
       ELSE IF remote_size = 0 THEN local_limit
       ELSE Min(local_limit, remote_size)

\* C37: after on_incoming_attach the link's max_message_size is the more
\* restrictive of the local and the remote limit, where 0 or an absent remote
\* value means no limit.
C37_MoreRestrictiveLimit ==
    [][ \A attach \in Attaches :
            (on_incoming_attach(attach) /\ link_last_call'.res = "Ok")
            => max_message_size' =
                   MoreRestrictive(max_message_size, attach.max_message_size) ]_vars

\* C38: a send_detach, like a send_attach, whose frame the session does not
\* take returns an error and leaves local_state as it was before the call.
C38_FailedSendKeepsState ==
    [][ (send_detach("err") \/ send_attach("err"))
        => /\ link_last_call'.res # "Ok"
           /\ link_local_state' = link_local_state ]_vars

\* C39: resume_delivery never loses the oneshot sender of the delivery: when it
\* returns no action the sender was fired by settle or settle_with_state, and
\* when it returns Resend, Resume, Abort or RestateOutcome the sender is inside the
\* returned action.
C39_NotifierNeverLost ==
    resuming # NotCalled
    => /\ resuming.action = "None" =>
              (resuming.sender = "fired" /\ resuming.settle \in { "settle", "settle_with_state" })
       /\ resuming.action \in { "Resend", "Resume", "Abort", "RestateOutcome" } =>
              (resuming.sender = "handed over" /\ resuming.settle = "none")
       /\ resuming.action \in { "None", "Resend", "Resume", "Abort", "RestateOutcome" }

\* a local Received behind which the remote is: the delivery is aborted and the
\* sender is inside the Abort
C39_Witness ==
    /\ resume_local.state = Received(1, 0)
    /\ resume_remote = Received(0, 1)
    /\ resuming.action = "Abort"
    /\ resuming.sender = "handed over"

\* C40: for every AttachError raised while accepting a link, the call that
\* handles it returns the error to the caller and does not abort the calling
\* task; the session is sent an End in the IllegalSessionState case and nothing
\* in the others.
C40_AttachErrorReturned ==
    /\ accept_pc # "panicked"
    /\ AcceptorControls \in { << >>, << "End" >> }
    /\ attach_error # "IllegalSessionState" => AcceptorControls = << >>

====
